---- MODULE Spec2Model ----
(***************************************************************************)
(* A model of the publer.go v1 client core: the generic pagination         *)
(* iterator (v1/iterator.go), the post page fetcher, the job poller        *)
(* WaitForJob and the in-memory mock server they are exercised against.    *)
(*                                                                         *)
(* Conventions.  The mock server's fields are one record, m.  A request    *)
(* handler is an operator from (m, request) to [m |-> the server after the *)
(* request, resp |-> the HTTP response].  Ids are tuples <<kind, n>>.  Go  *)
(* strings that the code inspects character by character are sequences of *)
(* one-character strings.  Durations are integers counted in microseconds. *)
(***************************************************************************)
EXTENDS Integers, Sequences, FiniteSets, TLC

\* ------------------------------------------------------------------ bounds

\* Posts ever added to the mock server in one behaviour.
MaxPosts == 21
\* FetchPage calls made by the iterator in one behaviour.
MaxFetches == 4
\* Largest call threshold given to SetErrorResponse.
MaxThreshold == 2

\* ------------------------------------------------------- program constants

defaultPerPage == 10

\* ---------------------------------------------------------------- helpers

Min(a, b) == IF a < b THEN a ELSE b

EmptyMap == [k \in {} |-> 0]

Has(f, k) == k \in DOMAIN f

Put(f, k, v) == [x \in (DOMAIN f) \cup {k} |-> IF x = k THEN v ELSE f[x]]

\* Go's m[k] on a map of ints: the zero value when the key is missing.
GetInt(f, k) == IF k \in DOMAIN f THEN f[k] ELSE 0

NoId == <<>>

\* ----------------------------------------------------------------- errors

Nil == [kind |-> "nil"]

\* ctx.Err() of a context in state c ("canceled" or "deadline").
CtxErr(c) == [kind |-> "context", which |-> c]

\* fmt.Errorf("request failed: %w", err) and the like: an error wrapping another.
Wrap(prefix, inner) == [kind |-> "wrapped", prefix |-> prefix, inner |-> inner]

\* errors.New / a transport failure that is not a context error.
TransportErr == [kind |-> "transport"]

RECURSIVE ErrorsIs(_, _)
\* errors.Is: target is err or something err wraps.
ErrorsIs(err, target) ==
    IF err = target THEN TRUE
    ELSE IF err.kind = "wrapped" THEN ErrorsIs(err.inner, target)
    ELSE FALSE

\* ----------------------------------------------------- strconv.Itoa / Atoi

DigitChars == <<"0", "1", "2", "3", "4", "5", "6", "7", "8", "9">>

IsDigit(c) == \E d \in 1..10 : DigitChars[d] = c

DigitVal(c) == (CHOOSE d \in 1..10 : DigitChars[d] = c) - 1

RECURSIVE ItoaNat(_)
ItoaNat(n) ==
    IF n < 10 THEN <<DigitChars[n + 1]>>
    ELSE Append(ItoaNat(n \div 10), DigitChars[(n % 10) + 1])

\* strconv.Itoa
Itoa(n) == IF n < 0 THEN <<"-">> \o ItoaNat(-n) ELSE ItoaNat(n)

RECURSIVE AtoiNat(_, _)
AtoiNat(s, acc) ==
    IF s = <<>> THEN acc
    ELSE AtoiNat(Tail(s), acc * 10 + DigitVal(Head(s)))

\* strconv.Atoi with the error dropped (page, _ = strconv.Atoi(pageStr)):
\* the value is 0 when the string is not a decimal integer.
Atoi(s) ==
    LET neg  == s # <<>> /\ Head(s) = "-"
        body == IF s # <<>> /\ Head(s) \in {"-", "+"} THEN Tail(s) ELSE s
    IN  IF body = <<>> \/ \E i \in 1..Len(body) : ~IsDigit(body[i]) THEN 0
        ELSE IF neg THEN 0 - AtoiNat(body, 0) ELSE AtoiNat(body, 0)

\* ------------------------------------------------------------------- time

\* Model times are integer ticks; a real time.Time is at least one second.
TicksPerSecond == 2

ZeroTime == 0

\* time.Time.IsZero
IsZero(t) == t = ZeroTime

NoParam == [set |-> FALSE, sec |-> 0]

\* t.Format(time.RFC3339): whole seconds, the fraction of a second is dropped.
FormatRFC3339(t) == [set |-> TRUE, sec |-> t \div TicksPerSecond]

\* time.Parse(time.RFC3339, s) of a string FormatRFC3339 produced.
ParseRFC3339(s) == s.sec * TicksPerSecond

\* ---------------------------------------------------------------- strings

LowerOf(c) ==
    CASE c = "A" -> "a"
      [] c = "B" -> "b"
      [] OTHER   -> c

\* strings.ToLower
ToLower(s) == [i \in 1..Len(s) |-> LowerOf(s[i])]

\* strings.Contains
Contains(s, sub) ==
    \E i \in 0..(Len(s) - Len(sub)) : SubSeq(s, i + 1, i + Len(sub)) = sub

\* ------------------------------------------------------------ mock server

\* SpawnMockServer: the server after construction (and after Reset).
SpawnMockServer ==
    [ jobs             |-> EmptyMap,
      jobProgression   |-> EmptyMap,
      jobProgressIndex |-> EmptyMap,
      posts            |-> <<>>,
      accounts         |-> <<>>,
      workspaces       |-> <<>>,
      currentUser      |-> [isNil |-> TRUE, ID |-> NoId],
      jobDelay         |-> 0,
      responses        |-> EmptyMap,
      errorResponses   |-> EmptyMap,
      callCounts       |-> EmptyMap,
      bulkOpLimit      |-> 0 ]

\* The (method, path) key of callCounts, responses and errorResponses: the
\* URL path carries no query string.
Key(method, path) == [method |-> method, path |-> path]

PostsPath == [res |-> "posts", id |-> NoId]

AccountsPath == [res |-> "accounts", id |-> NoId]

WorkspacesPath == [res |-> "workspaces", id |-> NoId]

JobStatusPath(jobID) == [res |-> "job_status", id |-> jobID]

\* SetErrorResponse
SetErrorResponse(m, method, path, callThreshold, statusCode, body, headers) ==
    [m EXCEPT !.errorResponses =
        Put(@, Key(method, path),
            [ StatusCode    |-> statusCode,
              Body          |-> body,
              Headers       |-> headers,
              CallThreshold |-> callThreshold,
              CallCount     |-> 0 ])]

\* AddPosts
AddPosts(m, newPosts) == [m EXCEPT !.posts = @ \o newPosts]

\* AddScheduledPost
AddScheduledPost(m, post) == [m EXCEPT !.posts = Append(@, post)]

\* The first assignments of Reset: jobs, progressions, collections, user.
ResetCollections(m) ==
    [m EXCEPT !.jobs             = EmptyMap,
              !.jobProgression   = EmptyMap,
              !.jobProgressIndex = EmptyMap,
              !.posts            = <<>>,
              !.accounts         = <<>>,
              !.workspaces       = <<>>,
              !.currentUser      = [isNil |-> TRUE, ID |-> NoId]]

\* Reset: every field it assigns; bulkOpLimit is not among them.
Reset(m) ==
    [m EXCEPT !.jobs             = EmptyMap,
              !.jobProgression   = EmptyMap,
              !.jobProgressIndex = EmptyMap,
              !.posts            = <<>>,
              !.accounts         = <<>>,
              !.workspaces       = <<>>,
              !.currentUser      = [isNil |-> TRUE, ID |-> NoId],
              !.responses        = EmptyMap,
              !.errorResponses   = EmptyMap,
              !.callCounts       = EmptyMap,
              !.jobDelay         = 0]

\* SetResponse
SetResponse(m, method, path, statusCode, body) ==
    [m EXCEPT !.responses =
        Put(@, Key(method, path), [StatusCode |-> statusCode, Body |-> body])]

\* SetDelay
SetDelay(m, delay) == [m EXCEPT !.jobDelay = delay]

\* AddAccounts
AddAccounts(m, accounts) == [m EXCEPT !.accounts = @ \o accounts]

\* AddWorkspaces
AddWorkspaces(m, workspaces) == [m EXCEPT !.workspaces = @ \o workspaces]

\* SetCurrentUser
SetCurrentUser(m, user) == [m EXCEPT !.currentUser = [isNil |-> FALSE, ID |-> user]]

\* SetBulkOperationLimit
SetBulkOperationLimit(m, limit) == [m EXCEPT !.bulkOpLimit = limit]

\* An HTTP response: status code, headers, JSON body.  panic marks a handler
\* that panicked: the connection is closed without a response.
Response(code, body) ==
    [code |-> code, headers |-> {}, body |-> body, panic |-> FALSE]

ErrorBody(error, message) == [type |-> "error", Error |-> error, Message |-> message]

Panicked == [code |-> 0, headers |-> {}, body |-> [type |-> "none"], panic |-> TRUE]

\* The query of a list request without any parameter.
NoQuery ==
    [ state      |-> "",
      states     |-> <<>>,
      from       |-> NoParam,
      to         |-> NoParam,
      page       |-> <<>>,
      accountIDs |-> <<>>,
      query      |-> <<>>,
      postType   |-> "",
      memberID   |-> "" ]

InSeq(x, s) == \E i \in 1..Len(s) : s[i] = x

\* A filter loop in which a state[] list replaces the single state.
PostMatchesStatesFirst(post, q) ==
    /\ IF Len(q.states) > 0 THEN InSeq(post.State, q.states)
       ELSE ~(q.state # "" /\ post.State # q.state)
    /\ ~(q.query # <<>> /\ ~Contains(ToLower(post.Text), ToLower(q.query)))
    /\ ~(Len(q.accountIDs) > 0 /\ ~InSeq(post.AccountID, q.accountIDs))
    /\ ~(q.postType # "" /\ post.Type # q.postType)
    /\ ~(q.memberID # "" /\ post.UserID # q.memberID)
    /\ ~(q.from.set /\ ~IsZero(ParseRFC3339(q.from))
             /\ post.ScheduledAt < ParseRFC3339(q.from))
    /\ ~(q.to.set /\ ~IsZero(ParseRFC3339(q.to)) /\ post.ScheduledAt > ParseRFC3339(q.to))

\* One iteration of filterPosts' loop: whether post is kept.
PostMatches(post, q) ==
    LET fromTime == IF q.from.set THEN ParseRFC3339(q.from) ELSE ZeroTime
        toTime   == IF q.to.set THEN ParseRFC3339(q.to) ELSE ZeroTime
    IN  /\ ~(q.state # "" /\ post.State # q.state)
        /\ ~(Len(q.states) > 0 /\ ~InSeq(post.State, q.states))
        /\ ~(q.query # <<>> /\ ~Contains(ToLower(post.Text), ToLower(q.query)))
        /\ ~(Len(q.accountIDs) > 0 /\ ~InSeq(post.AccountID, q.accountIDs))
        /\ ~(q.postType # "" /\ post.Type # q.postType)
        /\ ~(q.memberID # "" /\ post.UserID # q.memberID)
        /\ ~(~IsZero(fromTime) /\ post.ScheduledAt < fromTime)
        /\ ~(~IsZero(toTime) /\ post.ScheduledAt > toTime)

RECURSIVE FilterSeq(_, _)
FilterSeq(s, q) ==
    IF s = <<>> THEN <<>>
    ELSE IF PostMatches(Head(s), q) THEN <<Head(s)>> \o FilterSeq(Tail(s), q)
    ELSE FilterSeq(Tail(s), q)

\* filterPosts
filterPosts(m, q) == FilterSeq(m.posts, q)

\* A page count that rounds down instead of up.
ListTotalPagesFloor(total, perPage) ==
    LET totalPages == total \div perPage
    IN  IF totalPages = 0 THEN 1 ELSE totalPages

\* (total + perPage - 1) / perPage, and 1 when that is 0.
ListTotalPages(total, perPage) ==
    LET totalPages == (total + perPage - 1) \div perPage
    IN  IF totalPages = 0 THEN 1 ELSE totalPages

\* A slice that starts one page too far.
SliceStartZeroBased(page, perPage) == page * perPage

\* start := (page - 1) * perPage
SliceStart(page, perPage) == (page - 1) * perPage

\* handleListPosts
handleListPosts(m, q) ==
    LET page          == IF q.page # <<>> THEN Atoi(q.page) ELSE 1
        filteredPosts == filterPosts(m, q)
        perPage       == defaultPerPage
        total         == Len(filteredPosts)
        totalPages    == ListTotalPages(total, perPage)
        start         == SliceStart(page, perPage)
        end           == IF start + perPage > total THEN total ELSE start + perPage
    IN  IF start < total /\ (start < 0 \/ end < start)
        THEN [m |-> m, resp |-> Panicked]
        ELSE [m |-> m,
              resp |-> Response(200,
                  [ type       |-> "posts",
                    Posts      |-> IF start < total
                                   THEN SubSeq(filteredPosts, start + 1, end)
                                   ELSE <<>>,
                    Total      |-> total,
                    Page       |-> page,
                    PerPage    |-> perPage,
                    TotalPages |-> totalPages ])]

\* ------------------------------------------------------------------- jobs

\* The zero JobResult.
ZeroResult ==
    [Success |-> FALSE, PostIDs |-> <<>>, Message |-> "", Error |-> "", Data |-> {}]

\* A *JobResult: nil, or a pointer to val.
NilResult == [isNil |-> TRUE, val |-> ZeroResult]

Ptr(r) == [isNil |-> FALSE, val |-> r]

\* A JobStatus value.
JobStatus(id, status, progress, result, err) ==
    [ID |-> id, Status |-> status, Progress |-> progress, Result |-> result, Error |-> err]

\* json.Marshal of a JobResult: error and data are omitempty.
EncodeJobResult(r) ==
    LET keys == {"success", "post_ids", "message"}
                    \cup (IF r.Error # "" THEN {"error"} ELSE {})
                    \cup (IF r.Data # {} THEN {"data"} ELSE {})
    IN  [k \in keys |->
            CASE k = "success"  -> r.Success
              [] k = "post_ids" -> r.PostIDs
              [] k = "message"  -> r.Message
              [] k = "error"    -> r.Error
              [] k = "data"     -> r.Data]

\* json.Unmarshal into a zero JobResult: a missing key leaves the zero value.
DecodeJobResult(w) ==
    [ Success |-> IF "success" \in DOMAIN w THEN w["success"] ELSE FALSE,
      PostIDs |-> IF "post_ids" \in DOMAIN w THEN w["post_ids"] ELSE <<>>,
      Message |-> IF "message" \in DOMAIN w THEN w["message"] ELSE "",
      Error   |-> IF "error" \in DOMAIN w THEN w["error"] ELSE "",
      Data    |-> IF "data" \in DOMAIN w THEN w["data"] ELSE {} ]

\* json.Marshal of a JobStatus: result and error are omitempty.
EncodeJobStatus(js) ==
    LET keys == {"id", "status", "progress"}
                    \cup (IF ~js.Result.isNil THEN {"result"} ELSE {})
                    \cup (IF js.Error # "" THEN {"error"} ELSE {})
    IN  [k \in keys |->
            CASE k = "id"       -> js.ID
              [] k = "status"   -> js.Status
              [] k = "progress" -> js.Progress
              [] k = "result"   -> EncodeJobResult(js.Result.val)
              [] k = "error"    -> js.Error]

\* json.Unmarshal into a zero GetJobStatusResponse.
DecodeJobStatus(w) ==
    [ ID       |-> IF "id" \in DOMAIN w THEN w["id"] ELSE NoId,
      Status   |-> IF "status" \in DOMAIN w THEN w["status"] ELSE "",
      Progress |-> IF "progress" \in DOMAIN w THEN w["progress"] ELSE 0,
      Result   |-> IF "result" \in DOMAIN w
                   THEN Ptr(DecodeJobResult(w["result"])) ELSE NilResult,
      Error    |-> IF "error" \in DOMAIN w THEN w["error"] ELSE "" ]

\* SetJobStatus
SetJobStatus(m, jobID, status, progress, result, err) ==
    [m EXCEPT !.jobs = Put(@, jobID, JobStatus(jobID, status, progress, result, err))]

\* SetJobProgression
SetJobProgression(m, jobID, states) ==
    [m EXCEPT !.jobProgression   = Put(@, jobID, states),
              !.jobProgressIndex = Put(@, jobID, 0)]

\* A cursor that stops one snapshot before the last.
CanAdvanceStopsShort(index, states) == index < Len(states) - 2

\* index < len(states)-1
CanAdvance(index, states) == index < Len(states) - 1

\* An AdvanceJobState that starts over at the first snapshot after the last.
AdvanceJobStateWraps(m, jobID) ==
    IF ~Has(m.jobProgression, jobID) THEN [m |-> m, ret |-> FALSE]
    ELSE LET states == m.jobProgression[jobID]
             index  == GetInt(m.jobProgressIndex, jobID)
         IN  IF CanAdvance(index, states)
             THEN [m |-> [m EXCEPT !.jobProgressIndex = Put(@, jobID, index + 1),
                                   !.jobs = Put(@, jobID, states[index + 2])],
                   ret |-> TRUE]
             ELSE IF Len(states) > 1
             THEN [m |-> [m EXCEPT !.jobProgressIndex = Put(@, jobID, 0),
                                   !.jobs = Put(@, jobID, states[1])],
                   ret |-> TRUE]
             ELSE [m |-> m, ret |-> FALSE]

\* AdvanceJobState: the server after the call and the value returned.
AdvanceJobState(m, jobID) ==
    IF ~Has(m.jobProgression, jobID) THEN [m |-> m, ret |-> FALSE]
    ELSE LET states == m.jobProgression[jobID]
             index  == GetInt(m.jobProgressIndex, jobID)
         IN  IF CanAdvance(index, states)
             THEN [m |-> [m EXCEPT !.jobProgressIndex = Put(@, jobID, index + 1),
                                   !.jobs = Put(@, jobID, states[index + 2])],
                   ret |-> TRUE]
             ELSE [m |-> m, ret |-> FALSE]

\* A lookup that consults the job map before the progression.
handleJobStatusMapFirst(m, jobID) ==
    IF Has(m.jobs, jobID)
    THEN [m |-> m,
          resp |-> Response(200,
              [type |-> "jobstatus", json |-> EncodeJobStatus(m.jobs[jobID])])]
    ELSE IF /\ Has(m.jobProgression, jobID)
            /\ GetInt(m.jobProgressIndex, jobID) < Len(m.jobProgression[jobID])
    THEN [m |-> m,
          resp |-> Response(200,
              [type |-> "jobstatus",
               json |-> EncodeJobStatus(
                   m.jobProgression[jobID][GetInt(m.jobProgressIndex, jobID) + 1])])]
    ELSE [m |-> m, resp |-> Response(404, ErrorBody("not_found", "Job not found"))]

\* handleJobStatus: the progression's current snapshot first, then the job map.
handleJobStatus(m, jobID) ==
    IF /\ Has(m.jobProgression, jobID)
       /\ GetInt(m.jobProgressIndex, jobID) < Len(m.jobProgression[jobID])
    THEN [m |-> m,
          resp |-> Response(200,
              [type |-> "jobstatus",
               json |-> EncodeJobStatus(
                   m.jobProgression[jobID][GetInt(m.jobProgressIndex, jobID) + 1])])]
    ELSE IF Has(m.jobs, jobID)
    THEN [m |-> m,
          resp |-> Response(200,
              [type |-> "jobstatus", json |-> EncodeJobStatus(m.jobs[jobID])])]
    ELSE [m |-> m, resp |-> Response(404, ErrorBody("not_found", "Job not found"))]

\* ------------------------------------------------------- create endpoints

\* A request body as the handlers read it.  valid: the bytes are a JSON
\* object; fieldsOK: the object unmarshals into the endpoint's request struct;
\* hasPosts, hasVisibility: the object has that key; the rest are the fields
\* the handlers validate (postTimes: the scheduled_at of each bulk post).
NoBody ==
    [ valid         |-> TRUE,
      fieldsOK      |-> TRUE,
      hasPosts      |-> FALSE,
      postTimes     |-> <<>>,
      hasVisibility |-> FALSE,
      visibility    |-> "",
      scheduledAt   |-> ZeroTime,
      text          |-> "",
      accounts      |-> 0,
      frequency     |-> "",
      slots         |-> 0,
      maxCount      |-> 0,
      startDate     |-> ZeroTime,
      endDate       |-> ZeroTime,
      postID        |-> NoId,
      hasMedia      |-> FALSE,
      media         |-> 0 ]

BadRequest(m, message) ==
    [m |-> m, resp |-> Response(400, ErrorBody("bad_request", message))]

JobBody(jobID) == [type |-> "job", JobID |-> jobID]

\* m.jobs[jobID] = &JobStatus{ID: jobID, Status: status, Progress: 0}
StoreJob(m, jobID, status) ==
    [m EXCEPT !.jobs = Put(@, jobID, JobStatus(jobID, status, 0, NilResult, ""))]

\* The status the publish and schedule handlers store for a new job.
NewJobStatus == "pending"

\* The status handleRecurringPost, handleAutoSchedulePost and
\* handleRecyclePost store for a new job.
AdvancedJobStatus == "in_progress"

\* A limit that also rejects a request of exactly the limit's size.
ExceedsBulkLimitInclusive(m, count) == m.bulkOpLimit > 0 /\ count >= m.bulkOpLimit

\* m.bulkOpLimit > 0 && len(bulkReq.Posts) > m.bulkOpLimit
ExceedsBulkLimit(m, count) == m.bulkOpLimit > 0 /\ count > m.bulkOpLimit

\* handleBulkPublish
handleBulkPublish(m, body, now) ==
    IF ~body.fieldsOK THEN BadRequest(m, "Invalid bulk publish request format")
    ELSE IF ExceedsBulkLimit(m, Len(body.postTimes))
    THEN BadRequest(m, "Bulk operation limit exceeded")
    ELSE [m |-> StoreJob(m, <<"job", now>>, NewJobStatus),
          resp |-> Response(200, JobBody(<<"job", now>>))]

\* handlePublishPost
handlePublishPost(m, body, now) ==
    IF ~body.valid THEN BadRequest(m, "Invalid JSON payload")
    ELSE IF body.hasPosts THEN handleBulkPublish(m, body, now)
    ELSE [m |-> StoreJob(m, <<"job", now>>, NewJobStatus),
          resp |-> Response(200, JobBody(<<"job", now>>))]

\* handleBulkSchedule
handleBulkSchedule(m, body, now) ==
    IF ~body.fieldsOK THEN BadRequest(m, "Invalid bulk schedule request format")
    ELSE IF ExceedsBulkLimit(m, Len(body.postTimes))
    THEN BadRequest(m, "Bulk operation limit exceeded")
    ELSE IF \E i \in 1..Len(body.postTimes) :
                ~IsZero(body.postTimes[i]) /\ ~(body.postTimes[i] > now)
    THEN BadRequest(m, "Scheduled time must be in the future")
    ELSE [m |-> StoreJob(m, <<"job", now>>, NewJobStatus),
          resp |-> Response(200, JobBody(<<"job", now>>))]

\* handleSchedulePost: the job is stored before the draft and schedule
\* validations run.
handleSchedulePost(m, body, now) ==
    IF ~body.valid THEN BadRequest(m, "Invalid JSON payload")
    ELSE IF body.hasPosts THEN handleBulkSchedule(m, body, now)
    ELSE LET m2 == StoreJob(m, <<"job", now>>, NewJobStatus)
         IN  IF body.hasVisibility
             THEN IF ~body.fieldsOK
                  THEN BadRequest(m2, "Invalid draft request format")
                  ELSE IF body.visibility \notin {"draft_private", "draft_public"}
                  THEN BadRequest(m2, "Invalid visibility")
                  ELSE [m |-> m2, resp |-> Response(200, JobBody(<<"job", now>>))]
             ELSE IF ~body.fieldsOK
                  THEN BadRequest(m2, "Invalid schedule request format")
                  ELSE IF ~(body.scheduledAt > now)
                  THEN BadRequest(m2, "Scheduled time must be in the future")
                  ELSE [m |-> m2, resp |-> Response(200, JobBody(<<"job", now>>))]

\* handleRecurringPost
handleRecurringPost(m, body, now) ==
    IF ~body.valid \/ ~body.fieldsOK THEN BadRequest(m, "Invalid JSON payload")
    ELSE IF body.text = "" THEN BadRequest(m, "Text field is required")
    ELSE IF body.accounts = 0 THEN BadRequest(m, "At least one account is required")
    ELSE IF body.frequency = "" THEN BadRequest(m, "Recurrence frequency is required")
    ELSE [m |-> StoreJob(m, <<"recurring", now>>, AdvancedJobStatus),
          resp |-> Response(201, JobBody(<<"recurring", now>>))]

\* handleAutoSchedulePost
handleAutoSchedulePost(m, body, now) ==
    IF ~body.valid \/ ~body.fieldsOK THEN BadRequest(m, "Invalid JSON payload")
    ELSE IF body.text = "" THEN BadRequest(m, "Text field is required")
    ELSE IF body.accounts = 0 THEN BadRequest(m, "At least one account is required")
    ELSE IF body.slots <= 0 THEN BadRequest(m, "Slots must be greater than 0")
    ELSE IF body.endDate < body.startDate
    THEN BadRequest(m, "End date must be after start date")
    ELSE [m |-> StoreJob(m, <<"auto-schedule", now>>, AdvancedJobStatus),
          resp |-> Response(201, JobBody(<<"auto-schedule", now>>))]

\* handleRecyclePost
handleRecyclePost(m, body, now) ==
    IF ~body.valid \/ ~body.fieldsOK THEN BadRequest(m, "Invalid JSON payload")
    ELSE IF body.postID = NoId THEN BadRequest(m, "Post ID is required")
    ELSE IF body.frequency = "" THEN BadRequest(m, "Frequency is required")
    ELSE IF body.maxCount <= 0 THEN BadRequest(m, "Max count must be greater than 0")
    ELSE IF body.endDate < body.startDate
    THEN BadRequest(m, "End date must be after start date")
    ELSE IF ~\E i \in 1..Len(m.posts) : m.posts[i].ID = body.postID
    THEN [m |-> m, resp |-> Response(404, ErrorBody("not_found", "Post not found"))]
    ELSE [m |-> StoreJob(m, <<"recycle", now>>, AdvancedJobStatus),
          resp |-> Response(201, JobBody(<<"recycle", now>>))]

\* -------------------------------------------------------- post management

PostNotFound(m) ==
    [m |-> m, resp |-> Response(404, ErrorBody("not_found", "Post not found"))]

\* The index of the first post with this id, 0 when there is none.
FindPost(posts, postID) ==
    IF \E i \in 1..Len(posts) : posts[i].ID = postID
    THEN CHOOSE i \in 1..Len(posts) :
             /\ posts[i].ID = postID
             /\ \A j \in 1..(i - 1) : posts[j].ID # postID
    ELSE 0

\* handleGetPost
handleGetPost(m, postID) ==
    LET i == FindPost(m.posts, postID)
    IN  IF i = 0 THEN PostNotFound(m)
        ELSE [m |-> m, resp |-> Response(200, [type |-> "post", Post |-> m.posts[i]])]

\* handleUpdatePost
handleUpdatePost(m, postID, body) ==
    LET i == FindPost(m.posts, postID)
    IN  IF ~body.valid \/ ~body.fieldsOK
        THEN BadRequest(m, "Invalid JSON in request body")
        ELSE IF i = 0 THEN PostNotFound(m)
        ELSE LET p1 == IF body.text # "" THEN [m.posts[i] EXCEPT !.Text = body.text]
                       ELSE m.posts[i]
                 p2 == IF ~IsZero(body.scheduledAt)
                       THEN [p1 EXCEPT !.ScheduledAt = body.scheduledAt] ELSE p1
                 p3 == IF body.hasMedia THEN [p2 EXCEPT !.HasMedia = body.media > 0]
                       ELSE p2
             IN  [m |-> [m EXCEPT !.posts[i] = p3],
                  resp |-> Response(200, [type |-> "post", Post |-> p3])]

\* handleDeletePost
handleDeletePost(m, postID) ==
    LET foundIndex == FindPost(m.posts, postID)
    IN  IF foundIndex = 0 THEN PostNotFound(m)
        ELSE [m |-> [m EXCEPT !.posts =
                        SubSeq(@, 1, foundIndex - 1) \o SubSeq(@, foundIndex + 1, Len(@))],
              resp |-> Response(200,
                  [type |-> "deleted", Success |-> TRUE,
                   Message |-> "Post deleted successfully"])]

\* ------------------------------------------------- accounts, workspaces, me

\* handleListAccounts / handleListWorkspaces: the same body over m.accounts
\* and m.workspaces; total_pages is not raised to 1 here.
handleListPlain(m, items, type, q) ==
    LET page       == IF q.page # <<>> THEN Atoi(q.page) ELSE 1
        perPage    == defaultPerPage
        total      == Len(items)
        totalPages == (total + perPage - 1) \div perPage
        start      == (page - 1) * perPage
        end        == IF start + perPage > total THEN total ELSE start + perPage
    IN  IF start < total /\ (start < 0 \/ end < start)
        THEN [m |-> m, resp |-> Panicked]
        ELSE [m |-> m,
              resp |-> Response(200,
                  [ type       |-> type,
                    Posts      |-> IF start < total THEN SubSeq(items, start + 1, end)
                                   ELSE <<>>,
                    Total      |-> total,
                    Page       |-> page,
                    PerPage    |-> perPage,
                    TotalPages |-> totalPages ])]

\* handleListAccounts
handleListAccounts(m, q) == handleListPlain(m, m.accounts, "accounts", q)

\* handleListWorkspaces
handleListWorkspaces(m, q) == handleListPlain(m, m.workspaces, "workspaces", q)

\* handleGetMe
handleGetMe(m) ==
    IF m.currentUser.isNil
    THEN [m |-> m, resp |-> Response(404, ErrorBody("not_found", "User not found"))]
    ELSE [m |-> m, resp |-> Response(200, [type |-> "user", User |-> m.currentUser])]

\* ---------------------------------------------------------- handleRequest

PublishPath == [res |-> "posts/schedule/publish", id |-> NoId]

\* A path /api/v1/posts/{segment}: five parts when split on "/".
PostPath(segment) == [res |-> "posts/{id}", id |-> segment]

SchedulePath == PostPath(<<"schedule", 0>>)

RecurringPath == PostPath(<<"recurring", 0>>)

AutoSchedulePath == PostPath(<<"auto-schedule", 0>>)

RecyclePath == PostPath(<<"recycle", 0>>)

\* A request as handleRequest reads it.  auth and workspace say whether the
\* Authorization and Publer-Workspace-Id headers match the server's.
Request(method, path, query, body) ==
    [method |-> method, path |-> path, query |-> query, body |-> body,
     auth |-> "ok", workspace |-> "ok"]

\* handleRequest from the routing on: the resource handlers, in the order the
\* code tries them.
Dispatch(m, r, now) ==
    IF r.path.res = "job_status" THEN handleJobStatus(m, r.path.id)
    ELSE IF r.path = PostsPath /\ r.method = "GET" THEN handleListPosts(m, r.query)
    ELSE IF r.path = PublishPath /\ r.method = "POST"
    THEN handlePublishPost(m, r.body, now)
    ELSE IF r.path = SchedulePath /\ r.method = "POST"
    THEN handleSchedulePost(m, r.body, now)
    ELSE IF r.path = RecurringPath /\ r.method = "POST"
    THEN handleRecurringPost(m, r.body, now)
    ELSE IF r.path = AutoSchedulePath /\ r.method = "POST"
    THEN handleAutoSchedulePost(m, r.body, now)
    ELSE IF r.path = RecyclePath /\ r.method = "POST"
    THEN handleRecyclePost(m, r.body, now)
    ELSE IF r.path.res = "posts/{id}" /\ r.method = "GET"
    THEN handleGetPost(m, r.path.id)
    ELSE IF r.path.res = "posts/{id}" /\ r.method = "PATCH"
    THEN handleUpdatePost(m, r.path.id, r.body)
    ELSE IF r.path.res = "posts/{id}" /\ r.method = "DELETE"
    THEN handleDeletePost(m, r.path.id)
    ELSE IF r.path.res = "users/me" /\ r.method = "GET" THEN handleGetMe(m)
    ELSE IF r.path.res = "workspaces" /\ r.method = "GET"
    THEN handleListWorkspaces(m, r.query)
    ELSE IF r.path.res = "accounts" /\ r.method = "GET"
    THEN handleListAccounts(m, r.query)
    ELSE [m |-> m, resp |-> Response(404, ErrorBody("not_found", "Endpoint not found"))]

\* w.WriteHeader(code) panics on a code outside 100..999.
WriteResponse(code, headers, body) ==
    IF code < 100 \/ code > 999 THEN Panicked
    ELSE [code |-> code, headers |-> headers, body |-> body, panic |-> FALSE]

\* An error rule that fires only after its threshold is passed.
ErrorRuleFiresLate(m, key) ==
    /\ Has(m.errorResponses, key)
    /\ GetInt(m.callCounts, key) > m.errorResponses[key].CallThreshold

\* Whether the error rule registered for key fires on the current call.
ErrorRuleFires(m, key) ==
    /\ Has(m.errorResponses, key)
    /\ GetInt(m.callCounts, key) >= m.errorResponses[key].CallThreshold

\* A handler that looks for the canned response before the error rule.
handleCountedCannedFirst(m, r, now, loaded) ==
    LET key == Key(r.method, r.path)
        m1  == [m EXCEPT !.callCounts = Put(@, key, loaded + 1)]
    IN  IF Has(m1.responses, key)
        THEN [m |-> m1,
              resp |-> WriteResponse(m1.responses[key].StatusCode, {},
                                     m1.responses[key].Body)]
        ELSE IF ErrorRuleFires(m1, key)
        THEN [m |-> m1,
              resp |-> WriteResponse(m1.errorResponses[key].StatusCode,
                                     m1.errorResponses[key].Headers,
                                     m1.errorResponses[key].Body)]
        ELSE Dispatch(m1, r, now)

\* handleRequest after the credential checks and the load of m.callCounts[key]
\* (loaded): the counter is stored one higher, then the error rule, the
\* canned response and the resource handlers are tried.
handleCounted(m, r, now, loaded) ==
    LET key == Key(r.method, r.path)
        m1  == [m EXCEPT !.callCounts = Put(@, key, loaded + 1)]
    IN  IF ErrorRuleFires(m1, key)
        THEN [m |-> m1,
              resp |-> WriteResponse(m1.errorResponses[key].StatusCode,
                                     m1.errorResponses[key].Headers,
                                     m1.errorResponses[key].Body)]
        ELSE IF Has(m1.responses, key)
        THEN [m |-> m1,
              resp |-> WriteResponse(m1.responses[key].StatusCode, {},
                                     m1.responses[key].Body)]
        ELSE Dispatch(m1, r, now)

\* A handleRequest that counts the call before it checks the credentials.
handleRequestCountsFirst(m, r, now) ==
    LET key == Key(r.method, r.path)
        m1  == [m EXCEPT !.callCounts = Put(@, key, GetInt(m.callCounts, key) + 1)]
    IN  IF r.auth # "ok"
        THEN [m |-> m1,
              resp |-> Response(401,
                  ErrorBody("unauthorized", "Missing or invalid API key"))]
        ELSE IF r.workspace # "ok"
        THEN [m |-> m1,
              resp |-> Response(400,
                  ErrorBody("bad_request", "Missing or invalid workspace ID"))]
        ELSE handleCounted(m, r, now, GetInt(m.callCounts, key))

\* handleRequest, the part that runs under the write lock: credentials, the
\* call counter, the error rule, the canned response, the resource handlers.
handleRequest(m, r, now) ==
    IF r.auth # "ok"
    THEN [m |-> m,
          resp |-> Response(401, ErrorBody("unauthorized", "Missing or invalid API key"))]
    ELSE IF r.workspace # "ok"
    THEN [m |-> m,
          resp |-> Response(400,
              ErrorBody("bad_request", "Missing or invalid workspace ID"))]
    ELSE handleCounted(m, r, now, GetInt(m.callCounts, Key(r.method, r.path)))

\* ------------------------------------------------------------- Client.do

\* An *APIError or *RateLimitError built from a response of status >= 400:
\* the message is the body's message, else its error, else the raw body.
APIErrorOf(method, path, resp) ==
    [ kind       |-> IF resp.code = 429 THEN "ratelimit" ELSE "api",
      Method     |-> method,
      Path       |-> path,
      StatusCode |-> resp.code,
      Message    |-> IF resp.body.type = "error"
                     THEN (IF resp.body.Message # "" THEN resp.body.Message
                           ELSE resp.body.Error)
                     ELSE "" ]

NoResult == [type |-> "none"]

\* Client.do from the response on.  h is the server after the request and its
\* response; a handler that panicked closes the connection.
doResponse(method, path, h) ==
    IF h.resp.panic
    THEN [m |-> h.m, err |-> Wrap("request failed", TransportErr), result |-> NoResult]
    ELSE IF h.resp.code >= 400
    THEN [m |-> h.m, err |-> APIErrorOf(method, path, h.resp), result |-> NoResult]
    ELSE [m |-> h.m, err |-> Nil, result |-> h.resp.body]

\* Client.do against the mock server: the server after the call, the error
\* returned and the decoded body.  ctx is the context's state ("live",
\* "canceled", "deadline"); net is "ok" or, for a request the transport
\* fails to deliver, "fail".
do(m, ctx, net, method, path, query, body, now) ==
    IF ctx # "live"
    THEN [m |-> m, err |-> Wrap("request failed", CtxErr(ctx)), result |-> NoResult]
    ELSE IF net # "ok"
    THEN [m |-> m, err |-> Wrap("request failed", TransportErr), result |-> NoResult]
    ELSE doResponse(method, path,
                    handleRequest(m, Request(method, path, query, body), now))

\* ---------------------------------------------------- PostPageFetcher, Page

\* The zero ListPostsRequest.
NoFilter ==
    [ State      |-> "",
      States     |-> <<>>,
      From       |-> ZeroTime,
      To         |-> ZeroTime,
      AccountIDs |-> <<>>,
      Query      |-> <<>>,
      PostType   |-> "",
      MemberID   |-> "" ]

\* The zero Page[T].
ZeroPage == [Items |-> <<>>, Total |-> 0, Page |-> 0, PerPage |-> 0, TotalPages |-> 0]

\* The query parameters PostPageFetcher.FetchPage builds for page pageNum.
FetchParams(request, pageNum) ==
    [ state      |-> request.State,
      states     |-> request.States,
      from       |-> IF ~IsZero(request.From) THEN FormatRFC3339(request.From)
                     ELSE NoParam,
      to         |-> IF ~IsZero(request.To) THEN FormatRFC3339(request.To)
                     ELSE NoParam,
      page       |-> IF pageNum > 0 THEN Itoa(pageNum) ELSE <<>>,
      accountIDs |-> request.AccountIDs,
      query      |-> request.Query,
      postType   |-> request.PostType,
      memberID   |-> request.MemberID ]

\* FetchPage from the return of client.do on: d is what do returned.
PageOf(d) ==
    IF d.err # Nil THEN [m |-> d.m, err |-> d.err, page |-> ZeroPage]
    ELSE [m |-> d.m, err |-> Nil,
          page |-> [ Items      |-> d.result.Posts,
                     Total      |-> d.result.Total,
                     Page       |-> d.result.Page,
                     PerPage    |-> d.result.PerPage,
                     TotalPages |-> d.result.TotalPages ]]

\* PostPageFetcher.FetchPage: the server after the call, the error and the page.
FetchPage(m, ctx, net, request, pageNum, now) ==
    PageOf(do(m, ctx, net, "GET", PostsPath, FetchParams(request, pageNum), NoBody, now))

\* The query accountFetcher.FetchPage and workspacePageFetcher.FetchPage put
\* in the path: "?page=N" for pageNum > 1, nothing for the first page.
PlainFetchParams(pageNum) ==
    [NoQuery EXCEPT !.page = IF pageNum > 1 THEN Itoa(pageNum) ELSE <<>>]

\* accountFetcher.FetchPage
accountFetchPage(m, ctx, net, pageNum, now) ==
    PageOf(do(m, ctx, net, "GET", AccountsPath, PlainFetchParams(pageNum), NoBody, now))

\* workspacePageFetcher.FetchPage
workspaceFetchPage(m, ctx, net, pageNum, now) ==
    PageOf(do(m, ctx, net, "GET", WorkspacesPath, PlainFetchParams(pageNum), NoBody,
              now))

\* it.fetcher.FetchPage(ctx, pageNum): the call through the PageFetcher
\* interface, to the fetcher the iterator was built with.
FetcherFetchPage(fetcher, m, ctx, net, request, pageNum, now) ==
    IF fetcher = "accounts" THEN accountFetchPage(m, ctx, net, pageNum, now)
    ELSE IF fetcher = "workspaces" THEN workspaceFetchPage(m, ctx, net, pageNum, now)
    ELSE FetchPage(m, ctx, net, request, pageNum, now)

\* -------------------------------------------------------- GenericIterator

\* NewGenericIterator / NewPostIterator: no fetch, every field zero.
NewPostIterator(request) ==
    [fetcher |-> "posts", request |-> request, currentPage |-> 0, totalPages |-> 0,
     err |-> Nil, initialized |-> FALSE]

\* client.ListAccounts(ctx, ListAccountsRequest{}): no fetch.
ListAccounts == [NewPostIterator(NoFilter) EXCEPT !.fetcher = "accounts"]

\* client.ListWorkspaces(ctx, ListWorkspacesRequest{}): no fetch.
ListWorkspaces == [NewPostIterator(NoFilter) EXCEPT !.fetcher = "workspaces"]

\* A Next that never looks at its context.
CtxNeverDone(ctx) == FALSE

\* The select on ctx.Done() that opens Next: whether the context has ended.
CtxDone(ctx) == ctx # "live"

\* An end-of-stream test that lets one more fetch through.
ReachedEndLate(it) == it.totalPages > 0 /\ it.currentPage > it.totalPages

\* The end-of-stream test of Next.
ReachedEnd(it) == it.totalPages > 0 /\ it.currentPage >= it.totalPages

\* A Next that reports more pages on the last page too.
AfterFetchInclusive(it, f, base) ==
    LET it3 == IF it.currentPage = 1
               THEN [it EXCEPT !.totalPages = f.page.TotalPages] ELSE it
    IN  [base EXCEPT !.it = it3, !.m = f.m, !.ret = it3.currentPage <= it3.totalPages,
                     !.wrote = TRUE, !.page = f.page]

\* What Next does after a fetch that returned no error: capture totalPages on
\* page 1, write the caller's page, report whether more pages remain.
AfterFetch(it, f, base) ==
    LET it3 == IF it.currentPage = 1
               THEN [it EXCEPT !.totalPages = f.page.TotalPages] ELSE it
    IN  [base EXCEPT !.it = it3, !.m = f.m, !.ret = it3.currentPage < it3.totalPages,
                     !.wrote = TRUE, !.page = f.page]

\* A Next that takes the page number back when its fetch fails.
FetchedAsksAgain(it, f, base) ==
    IF f.err # Nil
    THEN [base EXCEPT !.it = [it EXCEPT !.err = f.err, !.currentPage = @ - 1],
                      !.m = f.m]
    ELSE AfterFetch(it, f, base)

\* Next from the return of FetchPage on: f is what FetchPage returned.
Fetched(it, f, base) ==
    IF f.err # Nil
    THEN [base EXCEPT !.it = [it EXCEPT !.err = f.err], !.m = f.m]
    ELSE AfterFetch(it, f, base)

\* GenericIterator.Next.  ctx is the state of the context passed in.  The
\* result: the iterator and the server after the call, the value returned,
\* whether *page was written and with what, and the page numbers passed to
\* FetchPage.
Next(it, m, ctx, net, now) ==
    LET base == [it |-> it, m |-> m, ret |-> FALSE, wrote |-> FALSE,
                 page |-> ZeroPage, fetched |-> <<>>]
    IN  IF CtxDone(ctx) THEN [base EXCEPT !.it.err = CtxErr(ctx)]
        ELSE LET it1 == IF ~it.initialized
                        THEN [it EXCEPT !.currentPage = 0, !.initialized = TRUE]
                        ELSE it
             IN  IF ReachedEnd(it1) THEN [base EXCEPT !.it = it1]
                 ELSE LET it2 == [it1 EXCEPT !.currentPage = @ + 1]
                      IN  Fetched(it2,
                                  FetcherFetchPage(it2.fetcher, m, ctx, net, it2.request,
                                                   it2.currentPage, now),
                                  [base EXCEPT !.fetched = <<it2.currentPage>>])

\* GenericIterator.Err
Err(it) == it.err

\* ------------------------------------------------------------ WaitForJob

\* time.Millisecond and time.Second, in microseconds.
Millisecond == 1000

Second == 1000 * Millisecond

\* fmt.Errorf without %w: an error that is only its text, kept as the pieces
\* the format string joins.
Errorf(text) == [kind |-> "errorf", text |-> text]

\* The zero GetJobStatusResponse.
ZeroStatus == JobStatus(NoId, "", 0, NilResult, "")

\* GetJobStatus from the return of client.do on: the body decoded into resp.
StatusOf(d) ==
    [m |-> d.m, err |-> d.err,
     resp |-> IF d.err = Nil /\ d.result.type = "jobstatus"
              THEN DecodeJobStatus(d.result.json) ELSE ZeroStatus]

\* Client.GetJobStatus: GET job_status/{id}, decoded into resp.
GetJobStatus(m, ctx, net, jobID, now) ==
    StatusOf(do(m, ctx, net, "GET", JobStatusPath(jobID), NoQuery, NoBody, now))

\* The defaults WaitForJob gives to options left zero.
WaitDefaults(opts) ==
    [ initialDelay |-> IF opts.InitialDelay = 0 THEN Second ELSE opts.InitialDelay,
      maxDelay     |-> IF opts.MaxDelay = 0 THEN 30 * Second ELSE opts.MaxDelay,
      jitter       |-> IF opts.Jitter = 0 THEN 500 * Millisecond ELSE opts.Jitter ]

\* A result that ignores what the server supplied.
CompletedResultDefault(statusResp) == [ZeroResult EXCEPT !.Success = TRUE]

\* case "completed": what is written to *result.
CompletedResult(statusResp) ==
    IF ~statusResp.Result.isNil THEN statusResp.Result.val
    ELSE [ZeroResult EXCEPT !.Success = TRUE]

\* A failure result that drops the status error text.
FailedResultNoText(statusResp) ==
    IF ~statusResp.Result.isNil THEN statusResp.Result.val ELSE ZeroResult

\* case "failed", "cancelled": what is written to *result.
FailedResult(statusResp) ==
    IF ~statusResp.Result.isNil THEN statusResp.Result.val
    ELSE [ZeroResult EXCEPT !.Success = FALSE, !.Error = statusResp.Error]

\* fmt.Errorf("job %s: %s", status, error)
JobError(status, error) == Errorf(<<"job ", status, ": ", error>>)

\* fmt.Errorf("unknown job status: %s", status)
UnknownStatusError(status) == Errorf(<<"unknown job status: ", status>>)

\* A poller that keeps waiting on "pending" alone.
StillRunningNarrow(status) == status = "pending"

\* A poller that keeps waiting on everything but the terminal statuses.
StillRunningLoose(status) == status \notin {"completed", "failed", "cancelled"}

\* case "pending", "working", "processing"
StillRunning(status) == status \in {"pending", "working", "processing"}

\* The doubling of delay, capped at maxDelay, skipped once delay >= maxDelay.
Backoff(delay, maxDelay) ==
    IF delay < maxDelay THEN Min(2 * delay, maxDelay) ELSE delay

\* int(jitter / time.Millisecond), the argument of r.Intn.
JitterSteps(jitter) == jitter \div Millisecond

\* A WaitForJob call that has not started.
NoWait ==
    [ pc |-> "idle", jobID |-> NoId, initialDelay |-> 0, delay |-> 0, maxDelay |-> 0,
      jitter |-> 0,
      result |-> ZeroResult, err |-> Nil, polls |-> 0, observed |-> FALSE,
      statusResp |-> ZeroStatus ]

\* WaitForJob up to its first select: the options' defaults, delay = initialDelay.
\* result is the caller's JobResult as passed in.
StartWaitForJob(jobID, opts, result) ==
    LET d == WaitDefaults(opts)
    IN  [NoWait EXCEPT !.pc = "waiting", !.jobID = jobID,
                       !.initialDelay = d.initialDelay, !.delay = d.initialDelay,
                       !.maxDelay = d.maxDelay, !.jitter = d.jitter,
                       !.result = result]

\* The select's ctx.Done() branch.
WaitCtxDone(w, ctx) == [w EXCEPT !.pc = "returned", !.err = CtxErr(ctx)]

\* A poller that waits and asks again when a status request fails.
PolledRetries(w, g, r) ==
    LET s  == g.resp
        w1 == [w EXCEPT !.polls = @ + 1, !.statusResp = s, !.observed = (g.err = Nil)]
    IN  [m |-> g.m,
         w |-> IF g.err # Nil THEN w1
               ELSE IF s.Status = "completed"
               THEN [w1 EXCEPT !.pc = "returned", !.err = Nil,
                               !.result = CompletedResult(s)]
               ELSE IF s.Status \in {"failed", "cancelled"}
               THEN [w1 EXCEPT !.pc = "returned", !.err = JobError(s.Status, s.Error),
                               !.result = FailedResult(s)]
               ELSE IF StillRunning(s.Status)
               THEN IF JitterSteps(w.jitter) <= 0 THEN [w1 EXCEPT !.pc = "panicked"]
                    ELSE [w1 EXCEPT !.delay = Backoff(w.delay, w.maxDelay)
                                                + r * Millisecond]
               ELSE [w1 EXCEPT !.pc = "returned",
                               !.err = UnknownStatusError(s.Status)]]

\* A poller that copies the result of every status response that has one.
PolledWritesEarly(w, g, r) ==
    LET s  == g.resp
        w1 == [w EXCEPT !.polls = @ + 1, !.statusResp = s, !.observed = (g.err = Nil),
                        !.result = IF g.err = Nil /\ ~s.Result.isNil THEN s.Result.val
                                   ELSE @]
    IN  [m |-> g.m,
         w |-> IF g.err # Nil THEN [w1 EXCEPT !.pc = "returned", !.err = g.err]
               ELSE IF s.Status = "completed"
               THEN [w1 EXCEPT !.pc = "returned", !.err = Nil,
                               !.result = CompletedResult(s)]
               ELSE IF s.Status \in {"failed", "cancelled"}
               THEN [w1 EXCEPT !.pc = "returned", !.err = JobError(s.Status, s.Error),
                               !.result = FailedResult(s)]
               ELSE IF StillRunning(s.Status)
               THEN IF JitterSteps(w.jitter) <= 0 THEN [w1 EXCEPT !.pc = "panicked"]
                    ELSE [w1 EXCEPT !.delay = Backoff(w.delay, w.maxDelay)
                                                + r * Millisecond]
               ELSE [w1 EXCEPT !.pc = "returned",
                               !.err = UnknownStatusError(s.Status)]]

\* The time.After branch from the return of GetJobStatus on: g is what
\* GetJobStatus returned, r what r.Intn returns.  pc "panicked": r.Intn was
\* called with an argument that is not positive.
Polled(w, g, r) ==
    LET s  == g.resp
        w1 == [w EXCEPT !.polls = @ + 1, !.statusResp = s, !.observed = (g.err = Nil)]
    IN  [m |-> g.m,
         w |-> IF g.err # Nil THEN [w1 EXCEPT !.pc = "returned", !.err = g.err]
               ELSE IF s.Status = "completed"
               THEN [w1 EXCEPT !.pc = "returned", !.err = Nil,
                               !.result = CompletedResult(s)]
               ELSE IF s.Status \in {"failed", "cancelled"}
               THEN [w1 EXCEPT !.pc = "returned", !.err = JobError(s.Status, s.Error),
                               !.result = FailedResult(s)]
               ELSE IF StillRunning(s.Status)
               THEN IF JitterSteps(w.jitter) <= 0 THEN [w1 EXCEPT !.pc = "panicked"]
                    ELSE [w1 EXCEPT !.delay = Backoff(w.delay, w.maxDelay)
                                                + r * Millisecond]
               ELSE [w1 EXCEPT !.pc = "returned",
                               !.err = UnknownStatusError(s.Status)]]

\* The select's time.After(delay) branch: one status request and the switch
\* on its status.
WaitPoll(w, m, ctx, net, r, now) ==
    Polled(w, GetJobStatus(m, ctx, net, w.jobID, now), r)

\* ================================================================== state

VARIABLES
    m,          \* the mock server's fields
    clock,      \* time.Now() on the server: advances with every request
    it,         \* the GenericIterator under test
    outPage,    \* the caller's Page, the *page argument of Next
    call,       \* the latest Next call: its context, result and fetches
    fetchLog,   \* the page numbers passed to FetchPage so far
    delivered,  \* the pages written to the caller so far
    modified,   \* whether m.posts changed after the iterator's first fetch (once at most)
    added,      \* posts ever added to the server
    w,          \* the WaitForJob call: its locals, *result and returned error
    wctx,       \* the state of the context passed to WaitForJob
    served,     \* the JobStatus the server held when it answered the latest poll
    stuck,      \* every poll so far was answered pending, working or processing
    rt,         \* the latest raw request to a create endpoint and its response
    last,       \* the latest request sent to the server and its response
    sent,       \* per key, the requests since Reset that passed the credential checks
    rule,       \* the arguments of the latest SetErrorResponse since Reset
    canned,     \* the arguments of the latest SetResponse since Reset
    adv,        \* the AdvanceJobState calls since the latest SetJobProgression
    mu,         \* the server's RWMutex: the writer holding it, the readers
    procs,      \* the goroutines serving requests: position and locals
    wall,       \* the time elapsed on the caller's clock, in microseconds
    timer,      \* when the time.After of the current WaitForJob iteration was made
    called,     \* when WaitForJob was called
    cfg,        \* the configuration call in progress on the test's goroutine
    trail       \* what the caller has noted so far: requests with their responses,
                \* or the pages its loop processed

vars == <<m, clock, it, outPage, call, fetchLog, delivered, modified, added,
          w, wctx, served, stuck, rt, last, sent, rule, canned, adv, mu, procs,
          wall, timer, called, cfg, trail>>

timeVars == <<wall, timer, called>>

injVars == <<last, sent, rule, canned>>

syncVars == <<mu, procs>>

\* What the iterator, WaitForJob and create-endpoint behaviours leave alone.
extVars == <<injVars, adv, syncVars>>

iterVars == <<it, outPage, call, fetchLog, delivered>>

postVars == <<modified, added>>

waitVars == <<w, wctx, served, stuck>>

\* The posts the behaviours add: ids are distinct, the other fields vary.
MkPost(i) ==
    [ ID          |-> <<"post", i>>,
      Text        |-> IF i % 2 = 0 THEN <<"A", "b">> ELSE <<"b", "c">>,
      State       |-> IF i % 3 = 0 THEN "scheduled" ELSE "published",
      Type        |-> "regular",
      AccountID   |-> IF i % 2 = 0 THEN "account-1" ELSE "account-2",
      UserID      |-> IF i % 3 = 1 THEN "user-1" ELSE "user-2",
      ScheduledAt |-> TicksPerSecond + i,
      HasMedia    |-> i % 2 = 0 ]

\* The list requests an iterator is created with.
IterRequests == {NoFilter, [NoFilter EXCEPT !.State = "scheduled"]}

\* The sizes of the batches added to a collection that is already loaded.
GrowthSizes == {1, defaultPerPage}

NoCall == [made |-> FALSE, ctx |-> "live", ret |-> FALSE, wrote |-> FALSE,
           fetched |-> <<>>]

NoRoundTrip == [made |-> FALSE, endpoint |-> "", code |-> 0, jobID |-> NoId]

\* No request sent yet.
NoExchange ==
    [made |-> FALSE, key |-> Key("", PostsPath), passed |-> FALSE, n |-> 0,
     query |-> NoQuery, resp |-> Response(0, [type |-> "none"])]

\* No SetErrorResponse and no SetResponse call made since Reset.
NoRule ==
    [set |-> FALSE, key |-> Key("", PostsPath), N |-> 0, status |-> 0,
     headers |-> {}, body |-> [type |-> "none"], at |-> 0]

NoCanned ==
    [set |-> FALSE, key |-> Key("", PostsPath), status |-> 0, body |-> [type |-> "none"],
     at |-> 0]

\* No progression installed and no AdvanceJobState call made.
NoAdvance ==
    [has |-> FALSE, states |-> <<>>, made |-> FALSE, ret |-> FALSE, trues |-> 0,
     calls |-> 0]

\* The zero sync.RWMutex.
Unlocked == [writer |-> 0, readers |-> 0]

\* No configuration call in progress.
NoConfig == [pc |-> "idle", op |-> "", before |-> SpawnMockServer]

\* A freshly spawned server, a client, and nothing called yet.
Fresh ==
    /\ m = SpawnMockServer
    /\ clock = 1
    /\ outPage = ZeroPage
    /\ call = NoCall
    /\ fetchLog = <<>>
    /\ delivered = <<>>
    /\ modified = FALSE
    /\ added = 0
    /\ w = NoWait
    /\ wctx = "live"
    /\ served = ZeroStatus
    /\ stuck = TRUE
    /\ rt = NoRoundTrip
    /\ last = NoExchange
    /\ sent = EmptyMap
    /\ rule = NoRule
    /\ canned = NoCanned
    /\ adv = NoAdvance
    /\ mu = Unlocked
    /\ procs = <<>>
    /\ wall = 0
    /\ timer = 0
    /\ called = 0
    /\ cfg = NoConfig
    /\ trail = <<>>

Init ==
    /\ Fresh
    /\ it \in {NewPostIterator(r) : r \in IterRequests}

\* server.AddPosts(posts) with k new posts: the first load of the collection,
\* or a later batch.
DoAddPosts(k) ==
    /\ added + k <= MaxPosts
    /\ added > 0 => (k \in GrowthSizes /\ ~modified /\ fetchLog # <<>>)
    /\ m' = AddPosts(m, [i \in 1..k |-> MkPost(added + i)])
    /\ added' = added + k
    /\ modified' = (modified \/ fetchLog # <<>>)
    /\ UNCHANGED <<clock, iterVars, waitVars, rt, extVars, timeVars, cfg, trail>>

\* The server after a DeletePost call that returned d.
Deleted(d) ==
    /\ m' = d.m
    /\ modified' = (modified \/ (fetchLog # <<>> /\ d.m.posts # m.posts))

\* client.DeletePost for id: DELETE /api/v1/posts/{id}.
DoDeletePost(id) ==
    /\ ~modified
    /\ fetchLog # <<>>
    /\ added > 0
    /\ Deleted(do(m, "live", "ok", "DELETE", PostPath(id), NoQuery, NoBody, clock))
    /\ clock' = clock + 1
    /\ UNCHANGED <<added, iterVars, waitVars, rt, extVars, timeVars, cfg, trail>>

\* server.SetErrorResponse("GET", "/api/v1/posts", threshold, 500, body, nil)
DoSetErrorResponse(threshold) ==
    /\ m' = SetErrorResponse(m, "GET", PostsPath, threshold, 500,
                             ErrorBody("Internal Server Error", ""), {})
    /\ m' # m
    /\ UNCHANGED <<clock, iterVars, postVars, waitVars, rt, extVars, timeVars, cfg, trail>>

\* The state after a Next call that returned r.
Returned(ctx, r) ==
    /\ Len(fetchLog) + Len(r.fetched) <= MaxFetches
    /\ it' = r.it
    /\ m' = r.m
    /\ outPage' = IF r.wrote THEN r.page ELSE outPage
    /\ call' = [made |-> TRUE, ctx |-> ctx, ret |-> r.ret, wrote |-> r.wrote,
                fetched |-> r.fetched]
    /\ fetchLog' = fetchLog \o r.fetched
    /\ delivered' = IF r.wrote THEN Append(delivered, r.page) ELSE delivered
    /\ clock' = clock + Len(r.fetched)
    /\ UNCHANGED <<postVars, waitVars, rt, extVars, timeVars, cfg, trail>>

\* iterator.Next(ctx, &page)
DoNext(ctx, net) == Returned(ctx, Next(it, m, ctx, net, clock))

\* The post deleted from a collection under iteration: the last one added.
DeleteIds == {<<"post", added>>}

NextIter ==
    \/ \E k \in 1..MaxPosts : DoAddPosts(k)
    \/ \E id \in DeleteIds : DoDeletePost(id)
    \/ \E t \in 1..MaxThreshold : DoSetErrorResponse(t)
    \/ \E ctx \in {"canceled", "deadline"} : DoNext(ctx, "ok")
    \/ \E net \in {"ok", "fail"} : DoNext("live", net)

SpecIter == Init /\ [][NextIter]_vars

\* ------------------------------------------------- iterator: properties

Contexts == {"live", "canceled", "deadline"}
Networks == {"ok", "fail"}

RECURSIVE ConcatItems(_)
\* The items of a sequence of pages, in order.
ConcatItems(pages) ==
    IF pages = <<>> THEN <<>>
    ELSE Head(pages).Items \o ConcatItems(Tail(pages))

\* The posts the iterator's request selects, in insertion order.
Selected ==
    IF it.request.State = "" THEN m.posts
    ELSE SelectSeq(m.posts, LAMBDA p : p.State = it.request.State)

\* ceil(n / 10), and 1 for n = 0.
PagesFor(n) == IF n = 0 THEN 1 ELSE (n + defaultPerPage - 1) \div defaultPerPage

\* The latest Next call returned false, no call so far has set an error and
\* the collection was not changed since the first fetch.
Exhausted == call.made /\ ~call.ret /\ it.err = Nil /\ ~modified

\* C1: iterating an unmodified collection of N posts until Next returns false
\* delivers exactly ceil(N/10) pages (1 page when N = 0), and the delivered
\* pages' items, concatenated, are the N posts in insertion order.
C1_ExhaustionDeliversAll ==
    Exhausted =>
        /\ Len(delivered) = PagesFor(Len(Selected))
        /\ ConcatItems(delivered) = Selected

\* A collection of 21 posts was iterated to the end in three pages.
C1_Witness ==
    /\ Exhausted
    /\ it.request.State = ""
    /\ Len(m.posts) = 21
    /\ Len(delivered) = 3

\* What C2 says of a Next call, apart from the error it leaves behind: true is
\* returned exactly when a page was written and currentPage < totalPages, and
\* a written page is the one just fetched for currentPage.
C2_ReturnValue ==
    /\ call'.ret = (call'.wrote /\ it'.currentPage < it'.totalPages)
    /\ call'.wrote =>
          /\ call'.fetched = <<it'.currentPage>>
          /\ outPage'.Page = it'.currentPage
          /\ outPage' = delivered'[Len(delivered')]
          /\ Len(delivered') = Len(delivered) + 1

\* The call delivered the last page.
C2_LastPage == call'.wrote /\ it'.currentPage = it'.totalPages

\* C2 (as the code has it): Next returns true iff it wrote a freshly fetched
\* page and currentPage < totalPages after the fetch; the last page is written
\* by the call that returns false, and that call leaves Err() as it was.
C2_TrueIffMorePages ==
    [][\A net \in Networks :
          (call' # call /\ DoNext(call'.ctx, net)) =>
              /\ C2_ReturnValue
              /\ C2_LastPage => (~call'.ret /\ it'.err = it.err)]_vars

\* C2 (as stated): ... the last page is written by the call that returns
\* false with Err() = nil.
C2_AsStated ==
    [][\A net \in Networks :
          (call' # call /\ DoNext(call'.ctx, net)) =>
              /\ C2_ReturnValue
              /\ C2_LastPage => (~call'.ret /\ it'.err = Nil)]_vars

\* The second and last page was written by a call that returned false.
C2_Witness ==
    /\ call.made /\ call.wrote /\ ~call.ret
    /\ it.totalPages = 2 /\ it.currentPage = 2
    /\ outPage.Page = 2

\* The iterator's first page reported totalPages >= 1 and its last page was
\* delivered.
LastPageDelivered ==
    /\ it.totalPages >= 1
    /\ it.currentPage = it.totalPages
    /\ \E i \in 1..Len(delivered) : delivered[i].Page = it.totalPages

\* What C3 says of a later call, apart from the error.
C3_NoEffect ==
    /\ ~call'.ret
    /\ call'.fetched = <<>>
    /\ fetchLog' = fetchLog
    /\ it'.currentPage = it.currentPage
    /\ ~call'.wrote
    /\ outPage' = outPage

\* C3 (as the code has it): once the last page is delivered, a Next call with
\* a live context returns false, fetches nothing, leaves currentPage and the
\* caller's page alone, and leaves Err() as it was.
C3_TerminalIsQuiet ==
    [][\A net \in Networks :
          (LastPageDelivered /\ call' # call /\ DoNext("live", net)) =>
              (C3_NoEffect /\ it'.err = it.err)]_vars

\* C3 (as stated): ... and leaves Err() nil.
C3_AsStated ==
    [][\A net \in Networks :
          (LastPageDelivered /\ call' # call /\ DoNext("live", net)) =>
              (C3_NoEffect /\ it'.err = Nil)]_vars

\* After the last page, a Next call with a live context was made while Err()
\* held the error of an earlier call with a cancelled context.
C3_Witness ==
    /\ LastPageDelivered
    /\ call.made /\ call.ctx = "live" /\ ~call.wrote /\ call.fetched = <<>>
    /\ it.err = [kind |-> "context", which |-> "canceled"]

\* C4: a Next call whose context is already done returns false, sets Err() to
\* the context's error, fetches nothing, and leaves currentPage, totalPages,
\* the caller's page and the server alone.
C4_DoneContext ==
    [][\A ctx \in {"canceled", "deadline"}, net \in Networks :
          DoNext(ctx, net) =>
              /\ ~call'.ret
              /\ it'.err = [kind |-> "context", which |-> ctx]
              /\ call'.fetched = <<>>
              /\ fetchLog' = fetchLog
              /\ it'.currentPage = it.currentPage
              /\ it'.totalPages = it.totalPages
              /\ ~call'.wrote
              /\ outPage' = outPage
              /\ m' = m]_vars

\* After the first of two pages, a Next call was made with a context whose
\* deadline had passed.
C4_Witness ==
    /\ call.made /\ call.ctx = "deadline"
    /\ it.currentPage = 1 /\ it.totalPages = 2
    /\ Len(delivered) = 1
    /\ it.err = [kind |-> "context", which |-> "deadline"]

\* The latest Next call made a fetch and the fetch failed.
FetchFailed == call.made /\ call.fetched # <<>> /\ ~call.wrote

\* C5: after a fetch fails inside Next, Err() is the fetch error, and every
\* later Next call with a live context returns false, fetches nothing, does
\* not advance currentPage and leaves Err() that error.
C5_ErrorIsPermanent ==
    [][/\ \A net \in Networks :
             (DoNext("live", net) /\ FetchFailed') => (~call'.ret /\ it'.err # Nil)
       /\ \A net \in Networks :
             (FetchFailed /\ DoNext("live", net)) =>
                 /\ ~call'.ret
                 /\ call'.fetched = <<>>
                 /\ it'.currentPage = it.currentPage
                 /\ it'.err = it.err]_vars

\* ===================================================== WaitForJob: state

\* Status requests one WaitForJob call makes in one behaviour.
MaxPolls == 3

\* The job the server is told about, and a job id it never hears of.
JobA == <<"job", 1>>

JobUnknown == <<"job", 0>>

ResultOK ==
    [ZeroResult EXCEPT !.Success = TRUE, !.PostIDs = <<<<"post", 1>>>>,
                       !.Message = "published"]

ResultRejected == [ZeroResult EXCEPT !.Error = "rejected"]

\* What the caller's JobResult holds before the call.
PriorResult == [ZeroResult EXCEPT !.Message = "prior"]

\* The arguments given to SetJobStatus: each protocol status, the terminal
\* ones with and without a result and an error text, and two statuses outside
\* the protocol.
JobSettings ==
    { JobStatus(JobA, "pending", 0, NilResult, ""),
      JobStatus(JobA, "working", 50, NilResult, ""),
      JobStatus(JobA, "processing", 50, Ptr(ResultOK), ""),
      JobStatus(JobA, "completed", 100, NilResult, ""),
      JobStatus(JobA, "completed", 100, Ptr(ResultOK), ""),
      JobStatus(JobA, "failed", 0, NilResult, "boom"),
      JobStatus(JobA, "failed", 0, Ptr(ResultRejected), "boom"),
      JobStatus(JobA, "cancelled", 0, NilResult, ""),
      JobStatus(JobA, "cancelled", 0, NilResult, "boom"),
      JobStatus(JobA, "in_progress", 0, NilResult, ""),
      JobStatus(JobA, "", 0, NilResult, "") }

\* The progressions given to SetJobProgression.
Progressions ==
    { << JobStatus(JobA, "pending", 0, NilResult, ""),
         JobStatus(JobA, "working", 50, NilResult, ""),
         JobStatus(JobA, "completed", 100, Ptr(ResultOK), "") >>,
      << JobStatus(JobA, "processing", 10, NilResult, ""),
         JobStatus(JobA, "failed", 10, NilResult, "boom") >> }

\* The WaitOptions of the calls: all defaults, the tests' timings, a maximum
\* reached at the first doubling, a jitter below one millisecond, and an
\* initial delay above the maximum.
WaitOptionSets ==
    { [InitialDelay |-> 0, MaxDelay |-> 0, Jitter |-> 0],
      [InitialDelay |-> 10 * Millisecond, MaxDelay |-> 20 * Millisecond,
       Jitter |-> 5 * Millisecond],
      [InitialDelay |-> 10 * Millisecond, MaxDelay |-> 100 * Millisecond,
       Jitter |-> 5 * Millisecond],
      [InitialDelay |-> 10 * Millisecond, MaxDelay |-> 100 * Millisecond,
       Jitter |-> Millisecond \div 2],
      [InitialDelay |-> 100 * Millisecond, MaxDelay |-> 50 * Millisecond,
       Jitter |-> 5 * Millisecond] }

\* The values r.Intn(n) is drawn from here: its least and its greatest.
JitterSamples(jitter) ==
    LET n == JitterSteps(jitter) IN IF n > 0 THEN {0, n - 1} ELSE {0}

\* The JobStatus the server holds for jobID: the progression's current
\* snapshot when there is one, else the job map's entry.
HeldJob(srv, jobID) ==
    IF Has(srv.jobProgression, jobID) /\ srv.jobProgression[jobID] # <<>>
    THEN srv.jobProgression[jobID][GetInt(srv.jobProgressIndex, jobID) + 1]
    ELSE IF Has(srv.jobs, jobID) THEN srv.jobs[jobID]
    ELSE ZeroStatus

InitWait ==
    /\ Fresh
    /\ it = NewPostIterator(NoFilter)

\* server.SetJobStatus(JobA, status, progress, result, err)
DoSetJobStatus(js) ==
    /\ w.pc \in {"idle", "waiting"}
    /\ m' = SetJobStatus(m, JobA, js.Status, js.Progress, js.Result, js.Error)
    /\ UNCHANGED <<clock, iterVars, postVars, waitVars, rt, extVars, timeVars, cfg, trail>>

\* server.SetJobProgression(JobA, states)
DoSetJobProgression(states) ==
    /\ w.pc \in {"idle", "waiting"}
    /\ m' = SetJobProgression(m, JobA, states)
    /\ UNCHANGED <<clock, iterVars, postVars, waitVars, rt, extVars, timeVars, cfg, trail>>

\* server.AdvanceJobState(JobA), when it returns true
DoAdvanceJobState ==
    /\ w.pc \in {"idle", "waiting"}
    /\ AdvanceJobState(m, JobA).ret
    /\ m' = AdvanceJobState(m, JobA).m
    /\ UNCHANGED <<clock, iterVars, postVars, waitVars, rt, extVars, timeVars, cfg, trail>>

\* client.WaitForJob(ctx, opts, &result) is called.
DoStartWait(jobID, opts, result) ==
    /\ w.pc = "idle"
    /\ w' = StartWaitForJob(jobID, opts, result)
    /\ UNCHANGED <<m, clock, iterVars, postVars, wctx, served, stuck, rt, extVars, timeVars, cfg, trail>>

\* The context given to WaitForJob is cancelled, or its deadline passes.
DoCtxEnd(how) ==
    /\ w.pc \in {"idle", "waiting"}
    /\ wctx = "live"
    /\ wctx' = how
    /\ UNCHANGED <<m, clock, iterVars, postVars, w, served, stuck, rt, extVars, timeVars, cfg, trail>>

\* The select takes ctx.Done().
DoWaitCtxDone ==
    /\ w.pc = "waiting"
    /\ wctx # "live"
    /\ w' = WaitCtxDone(w, wctx)
    /\ UNCHANGED <<m, clock, iterVars, postVars, wctx, served, stuck, rt, extVars, timeVars, cfg, trail>>

\* The state after a poll that left the waiter and the server as p has them.
AfterPoll(p) ==
    /\ w' = p.w
    /\ m' = p.m
    /\ served' = IF p.w.observed THEN HeldJob(m, w.jobID) ELSE served
    /\ stuck' = /\ stuck
                /\ IF p.w.observed
                   THEN p.w.statusResp.Status \in {"pending", "working", "processing"}
                   ELSE wctx # "live"

\* The select takes time.After(delay): one poll.
DoWaitPoll(net, r) ==
    /\ w.pc = "waiting"
    /\ w.polls < MaxPolls
    /\ r \in JitterSamples(w.jitter)
    /\ AfterPoll(WaitPoll(w, m, wctx, net, r, clock))
    /\ UNCHANGED <<clock, iterVars, postVars, wctx, rt, extVars, timeVars, cfg, trail>>

NextWait ==
    \/ \E js \in JobSettings : DoSetJobStatus(js)
    \/ \E p \in Progressions : DoSetJobProgression(p)
    \/ DoAdvanceJobState
    \/ \E j \in {JobA, JobUnknown}, o \in WaitOptionSets : DoStartWait(j, o, PriorResult)
    \/ \E how \in {"canceled", "deadline"} : DoCtxEnd(how)
    \/ DoWaitCtxDone
    \/ \E net \in Networks, r \in JitterSamples(w.jitter) : DoWaitPoll(net, r)

SpecWait == InitWait /\ [][NextWait]_vars

\* ------------------------------------------------- WaitForJob: properties

\* The JobResult the caller holds when the server supplied none and the job
\* completed, and when it failed with error text e.
DefaultSuccess ==
    [Success |-> TRUE, PostIDs |-> <<>>, Message |-> "", Error |-> "", Data |-> {}]

DefaultFailure(e) ==
    [Success |-> FALSE, PostIDs |-> <<>>, Message |-> "", Error |-> e, Data |-> {}]

\* C6: when the first status WaitForJob observes is "completed", it returns
\* nil after exactly one status request, and *result is the result the server
\* held, or JobResult{Success: true} when the server held none.
C6_CompletedAtFirstPoll ==
    (w.polls = 1 /\ w.observed /\ w.statusResp.Status = "completed") =>
        /\ w.pc = "returned"
        /\ w.err = Nil
        /\ w.result = IF served.Result.isNil THEN DefaultSuccess
                      ELSE served.Result.val

\* The first poll found the job completed with a result, and the caller,
\* who passed another result in, holds the server's.
C6_Witness ==
    /\ w.pc = "returned" /\ w.polls = 1 /\ w.observed
    /\ w.statusResp.Status = "completed"
    /\ served.Result = Ptr(ResultOK)
    /\ w.result = ResultOK
    /\ w.err = Nil

\* C7: when WaitForJob observes "failed" or "cancelled" it returns an error,
\* never nil, whose text has the status name and the status error message,
\* and *result is the result the server held, or
\* JobResult{Success: false, Error: message} when the server held none.
C7_FailedOrCancelled ==
    (w.observed /\ w.statusResp.Status \in {"failed", "cancelled"}) =>
        /\ w.pc = "returned"
        /\ w.err # Nil
        /\ w.err.kind = "errorf"
        /\ InSeq(served.Status, w.err.text)
        /\ InSeq(served.Error, w.err.text)
        /\ served.Status = w.statusResp.Status
        /\ w.result = IF served.Result.isNil THEN DefaultFailure(served.Error)
                      ELSE served.Result.val

\* The second poll found the job cancelled with an error text and no result.
C7_Witness ==
    /\ w.pc = "returned" /\ w.polls = 2 /\ w.observed
    /\ w.statusResp.Status = "cancelled"
    /\ served.Result.isNil /\ served.Error = "boom"
    /\ w.result = DefaultFailure("boom")

\* C8: while every status request is answered pending, working or
\* processing, WaitForJob returns only once its context has ended, and then
\* with an error that is, or wraps, the context's error.
C8_ReturnsOnlyOnContextEnd ==
    (w.pc = "returned" /\ stuck) =>
        /\ wctx # "live"
        /\ w.err # Nil
        /\ ErrorsIs(w.err, [kind |-> "context", which |-> wctx])

\* After two polls answered with a non-terminal status the deadline passed
\* and WaitForJob returned.
C8_Witness ==
    /\ w.pc = "returned" /\ stuck
    /\ w.polls = 2 /\ w.observed
    /\ wctx = "deadline"
    /\ w.err = [kind |-> "context", which |-> "deadline"]

\* C9: when WaitForJob observes a status outside the six protocol statuses it
\* returns an "unknown job status" error on that poll.
C9_UnknownStatus ==
    (w.observed /\ w.statusResp.Status \notin
         {"pending", "working", "processing", "completed", "failed", "cancelled"}) =>
        /\ w.pc = "returned"
        /\ w.err = [kind |-> "errorf",
                    text |-> <<"unknown job status: ", w.statusResp.Status>>]

\* The second poll found the status "in_progress".
C9_Witness ==
    /\ w.pc = "returned" /\ w.polls = 2 /\ w.observed
    /\ w.statusResp.Status = "in_progress"
    /\ w.err.kind = "errorf"

\* ================================================= create endpoints: state

\* Requests sent to the create endpoints in one behaviour.
MaxRequests == 3

\* The bodies sent at server time now.  Each endpoint gets a body it accepts
\* and bodies it rejects.
TextBody == [NoBody EXCEPT !.text = "hello", !.accounts = 1]

CreateRequests(now) ==
    LET later == now + TicksPerSecond
    IN  { [endpoint |-> "publish", path |-> PublishPath, body |-> TextBody],
          [endpoint |-> "publish", path |-> PublishPath,
           body |-> [TextBody EXCEPT !.valid = FALSE]],
          [endpoint |-> "bulk publish", path |-> PublishPath,
           body |-> [NoBody EXCEPT !.hasPosts = TRUE, !.postTimes = <<ZeroTime, ZeroTime>>]],
          [endpoint |-> "bulk publish", path |-> PublishPath,
           body |-> [NoBody EXCEPT !.hasPosts = TRUE, !.fieldsOK = FALSE]],
          [endpoint |-> "schedule", path |-> SchedulePath,
           body |-> [TextBody EXCEPT !.scheduledAt = later]],
          [endpoint |-> "schedule", path |-> SchedulePath,
           body |-> [TextBody EXCEPT !.scheduledAt = now]],
          [endpoint |-> "draft", path |-> SchedulePath,
           body |-> [TextBody EXCEPT !.hasVisibility = TRUE,
                                     !.visibility = "draft_private"]],
          [endpoint |-> "draft", path |-> SchedulePath,
           body |-> [TextBody EXCEPT !.hasVisibility = TRUE, !.visibility = "public"]],
          [endpoint |-> "bulk schedule", path |-> SchedulePath,
           body |-> [NoBody EXCEPT !.hasPosts = TRUE, !.postTimes = <<later>>]],
          [endpoint |-> "bulk schedule", path |-> SchedulePath,
           body |-> [NoBody EXCEPT !.hasPosts = TRUE, !.postTimes = <<later, now>>]],
          [endpoint |-> "recurring", path |-> RecurringPath,
           body |-> [TextBody EXCEPT !.frequency = "daily"]],
          [endpoint |-> "recurring", path |-> RecurringPath, body |-> TextBody],
          [endpoint |-> "auto-schedule", path |-> AutoSchedulePath,
           body |-> [TextBody EXCEPT !.slots = 1, !.startDate = now, !.endDate = later]],
          [endpoint |-> "auto-schedule", path |-> AutoSchedulePath,
           body |-> [TextBody EXCEPT !.slots = 0]],
          [endpoint |-> "recycle", path |-> RecyclePath,
           body |-> [NoBody EXCEPT !.postID = <<"post", 1>>, !.frequency = "weekly",
                                   !.maxCount = 1, !.startDate = now,
                                   !.endDate = later]],
          [endpoint |-> "recycle", path |-> RecyclePath,
           body |-> [NoBody EXCEPT !.postID = <<"post", 1>>, !.frequency = "weekly"]] }

\* The state after the server answered create request c with h.
Answered(c, h) ==
    /\ m' = h.m
    /\ rt' = [made |-> TRUE, endpoint |-> c.endpoint, code |-> h.resp.code,
              jobID |-> IF h.resp.code < 400 /\ h.resp.body.type = "job"
                        THEN h.resp.body.JobID ELSE NoId]

\* One authenticated POST to a create endpoint, and what came back.
DoCreate(c) ==
    /\ clock <= MaxRequests
    /\ Answered(c, handleRequest(m, Request("POST", c.path, NoQuery, c.body), clock))
    /\ clock' = clock + 1
    /\ UNCHANGED <<iterVars, postVars, waitVars, extVars, timeVars, cfg, trail>>

NextCreate ==
    \/ DoAddPosts(1)
    \/ \E c \in CreateRequests(clock) : DoCreate(c)

SpecCreate == InitWait /\ [][NextCreate]_vars

\* ------------------------------------------- create endpoints: properties

\* The latest create request succeeded.
Created == rt.made /\ rt.code < 400

\* C10: every create endpoint that succeeds stores, under the job id it
\* returns, a job with status "pending" and progress 0, a status request for
\* that id reports pending, and every stored status is one of the six
\* protocol statuses.
C10_CreatedJobsArePending ==
    /\ Created =>
          /\ Has(m.jobs, rt.jobID)
          /\ m.jobs[rt.jobID].Status = "pending"
          /\ m.jobs[rt.jobID].Progress = 0
          /\ GetJobStatus(m, "live", "ok", rt.jobID, clock).resp.Status = "pending"
    /\ \A id \in DOMAIN m.jobs :
          m.jobs[id].Status \in
              {"pending", "working", "processing", "completed", "failed", "cancelled"}

\* A recurring post was created and a job is stored under the id returned.
C10_Witness ==
    /\ Created
    /\ rt.endpoint = "recurring"
    /\ Has(m.jobs, rt.jobID)
    /\ m.jobs[rt.jobID].Progress = 0

\* ================================================== error injection: state

\* Requests sent in one behaviour of the mock-server specifications.
MaxCalls == 4

\* The endpoint the canned response and the error rule are registered for,
\* as in TestMockServerSetErrorResponse: no resource handler serves it.
TestPath == [res |-> "test", id |-> NoId]

TestKey == Key("GET", TestPath)

OKBody == [type |-> "canned", status |-> "ok"]

\* The error responses given to SetErrorResponse: status, body and headers.
ErrorReplies ==
    { [status |-> 500, body |-> ErrorBody("Internal Server Error", ""), headers |-> {}],
      [status |-> 429, body |-> ErrorBody("rate_limit_exceeded", ""),
       headers |-> {<<"X-RateLimit-Limit", "100">>, <<"X-RateLimit-Remaining", "0">>}] }

\* The thresholds given to SetErrorResponse.
Thresholds == 0..(MaxThreshold + 1)

\* A request whose Authorization or Publer-Workspace-Id header is as given.
RequestAs(method, path, query, body, auth, workspace) ==
    [Request(method, path, query, body) EXCEPT !.auth = auth, !.workspace = workspace]

\* Whether r passes both credential checks of handleRequest.
Passes(r) == r.auth = "ok" /\ r.workspace = "ok"

\* The headers a request is sent with: right, a wrong API key, a wrong
\* workspace id.
Credentials == {<<"ok", "ok">>, <<"bad", "ok">>, <<"ok", "bad">>}

\* The state after the server answered request r with h.
Exchanged(r, h) ==
    /\ m' = h.m
    /\ sent' = IF Passes(r)
               THEN Put(sent, Key(r.method, r.path), GetInt(sent, Key(r.method, r.path)) + 1)
               ELSE sent
    /\ last' = [made |-> TRUE, key |-> Key(r.method, r.path), passed |-> Passes(r),
                n |-> IF Passes(r) THEN GetInt(sent, Key(r.method, r.path)) + 1 ELSE 0,
                query |-> r.query, resp |-> h.resp]
    /\ clock' = clock + 1

\* One request served by handleRequest.
DoRequest(r) ==
    /\ clock <= MaxCalls
    /\ Exchanged(r, handleRequest(m, r, clock))
    /\ UNCHANGED <<iterVars, postVars, waitVars, rt, rule, canned, adv, syncVars, timeVars, cfg, trail>>

\* server.SetResponse("GET", "/api/v1/test", 200, body)
DoSetResponse ==
    /\ ~canned.set
    /\ m' = SetResponse(m, "GET", TestPath, 200, OKBody)
    /\ canned' = [set |-> TRUE, key |-> TestKey, status |-> 200, body |-> OKBody,
                  at |-> GetInt(sent, TestKey)]
    /\ UNCHANGED <<clock, iterVars, postVars, waitVars, rt, last, sent, rule, adv,
                   syncVars, timeVars, cfg, trail>>

\* server.SetErrorResponse("GET", "/api/v1/test", N, status, body, headers)
DoConfigureError(N, e) ==
    /\ m' = SetErrorResponse(m, "GET", TestPath, N, e.status, e.body, e.headers)
    /\ rule' = [set |-> TRUE, key |-> TestKey, N |-> N, status |-> e.status,
                headers |-> e.headers, body |-> e.body, at |-> GetInt(sent, TestKey)]
    /\ rule' # rule
    /\ UNCHANGED <<clock, iterVars, postVars, waitVars, rt, last, sent, canned, adv,
                   syncVars, timeVars, cfg, trail>>

\* server.Reset()
DoReset ==
    /\ m' = Reset(m)
    /\ sent' = EmptyMap
    /\ rule' = NoRule
    /\ canned' = NoCanned
    /\ last' = NoExchange
    /\ adv' = NoAdvance
    /\ m # SpawnMockServer
    /\ UNCHANGED <<clock, iterVars, postVars, waitVars, rt, syncVars, timeVars, cfg, trail>>

NextInject ==
    \/ DoSetResponse
    \/ \E N \in Thresholds, e \in ErrorReplies : DoConfigureError(N, e)
    \/ \E c \in Credentials :
           DoRequest(RequestAs("GET", TestPath, NoQuery, NoBody, c[1], c[2]))
    \/ DoReset

SpecInject == InitWait /\ [][NextInject]_vars

\* --------------------------------------------- error injection: properties

\* The response the latest SetErrorResponse configured.
ConfiguredError ==
    [code |-> rule.status, headers |-> rule.headers, body |-> rule.body, panic |-> FALSE]

\* The response the latest SetResponse configured.
ConfiguredSuccess ==
    [code |-> canned.status, headers |-> {}, body |-> canned.body, panic |-> FALSE]

\* The latest request passed the credential checks and was sent to the key
\* that has a canned response and an error rule, both installed before any
\* call to the key.
InjectionCase ==
    /\ last.made /\ last.passed
    /\ rule.set /\ rule.at = 0 /\ last.key = rule.key
    /\ canned.set /\ canned.at = 0 /\ last.key = canned.key

\* An authenticated GET of the test endpoint.
TestRequest == RequestAs("GET", TestPath, NoQuery, NoBody, "ok", "ok")

\* A call that follows a call answered with the error gets the error.
C11_KeepsFiring ==
    (InjectionCase /\ last.resp = ConfiguredError /\ DoRequest(TestRequest))
        => last'.resp = ConfiguredError

\* Reset leaves no call counter and no error rule.
C11_ResetClears ==
    DoReset => (m'.callCounts = EmptyMap /\ m'.errorResponses = EmptyMap)

\* C11: with a canned success and an error rule of threshold N installed on a
\* reset server, authenticated calls 1..N-1 to the key get the canned success
\* and call N and every later call get the configured error status, headers
\* and body; a call that follows a call answered with the error is answered
\* with the error; Reset leaves no call counter and no error rule.
C11_ErrorFromCallN ==
    /\ [](InjectionCase =>
            last.resp = IF last.n >= rule.N THEN ConfiguredError ELSE ConfiguredSuccess)
    /\ [][C11_KeepsFiring /\ C11_ResetClears]_vars

\* The second authenticated call met a rule of threshold 2: the first got the
\* canned success, this one the 429 with its headers.
C11_Witness ==
    /\ InjectionCase
    /\ rule.N = 2 /\ last.n = 2
    /\ last.resp.code = 429
    /\ last.resp.headers # {}
    /\ GetInt(m.callCounts, TestKey) = 2

\* ============================================================ Reset: state

\* The values the configuration calls are given.
DelayValues == {50 * Millisecond}

BulkLimits == {2}

MkAccount(i) == [ID |-> <<"account", i>>, Provider |-> "facebook"]

MkWorkspace(i) == [ID |-> <<"workspace", i>>]

\* server.SetDelay(delay)
DoSetDelay(delay) ==
    /\ m.jobDelay = 0
    /\ m' = SetDelay(m, delay)
    /\ UNCHANGED <<clock, iterVars, postVars, waitVars, rt, extVars, timeVars, cfg, trail>>

\* server.SetBulkOperationLimit(limit)
DoSetBulkOperationLimit(limit) ==
    /\ m.bulkOpLimit # limit
    /\ m' = SetBulkOperationLimit(m, limit)
    /\ UNCHANGED <<clock, iterVars, postVars, waitVars, rt, extVars, timeVars, cfg, trail>>

\* server.AddAccounts(accounts) with k accounts, on an empty collection
DoAddAccounts(k) ==
    /\ m.accounts = <<>>
    /\ m' = AddAccounts(m, [i \in 1..k |-> MkAccount(i)])
    /\ UNCHANGED <<clock, iterVars, postVars, waitVars, rt, extVars, timeVars, cfg, trail>>

\* server.AddWorkspaces(workspaces) with k workspaces, on an empty collection
DoAddWorkspaces(k) ==
    /\ m.workspaces = <<>>
    /\ m' = AddWorkspaces(m, [i \in 1..k |-> MkWorkspace(i)])
    /\ UNCHANGED <<clock, iterVars, postVars, waitVars, rt, extVars, timeVars, cfg, trail>>

\* server.SetCurrentUser(user)
DoSetCurrentUser ==
    /\ m.currentUser.isNil
    /\ m' = SetCurrentUser(m, <<"user", 1>>)
    /\ UNCHANGED <<clock, iterVars, postVars, waitVars, rt, extVars, timeVars, cfg, trail>>

\* Every configuration call, requests, and Reset.
NextReset ==
    \/ DoAddPosts(1)
    \/ DoAddAccounts(1)
    \/ DoAddWorkspaces(1)
    \/ DoSetCurrentUser
    \/ \E d \in DelayValues : DoSetDelay(d)
    \/ \E l \in BulkLimits : DoSetBulkOperationLimit(l)
    \/ DoSetJobStatus(JobStatus(JobA, "pending", 0, NilResult, ""))
    \/ (~Has(m.jobProgression, JobA) /\ \E p \in Progressions : DoSetJobProgression(p))
    \/ DoSetResponse
    \/ DoConfigureError(1, CHOOSE e \in ErrorReplies : e.status = 500)
    \/ (m.callCounts = EmptyMap /\ DoRequest(TestRequest))
    \/ DoReset

SpecReset == InitWait /\ [][NextReset]_vars

\* ------------------------------------------------------- Reset: properties

\* C12: after Reset every mutable field of the server has its initial value:
\* posts, accounts, workspaces, current user, jobs, progressions and cursors,
\* canned responses, error rules, call counters, the delay and the
\* bulk-operation limit.
C12_ResetRestoresAll == [][DoReset => m' = SpawnMockServer]_vars

\* Reset ran on a server whose every field had been set, and the fields
\* Reset assigns are back at their initial values.
C12_Witness ==
    /\ last = NoExchange /\ ~rule.set /\ ~canned.set /\ clock > 1 /\ added > 0
    /\ m.posts = <<>> /\ m.accounts = <<>> /\ m.workspaces = <<>>
    /\ m.currentUser.isNil
    /\ m.jobs = EmptyMap /\ m.jobProgression = EmptyMap
    /\ m.jobProgressIndex = EmptyMap
    /\ m.responses = EmptyMap /\ m.errorResponses = EmptyMap
    /\ m.callCounts = EmptyMap /\ m.jobDelay = 0
    /\ m.bulkOpLimit # 0

\* ============================================================ lists: state

\* The largest collection listed, and the largest page number requested.
MaxItems == 25

MaxPage == 4

\* The posts of a listed collection: every filtered field varies.
ListPost(i) ==
    [ ID          |-> <<"post", i>>,
      Text        |-> CASE i % 3 = 0 -> <<"A", "b">>
                        [] i % 3 = 1 -> <<"b", "c">>
                        [] OTHER     -> <<"c", "a">>,
      State       |-> CASE i % 4 = 0 -> "scheduled"
                        [] i % 4 = 1 -> "published"
                        [] OTHER     -> "draft",
      Type        |-> IF i % 5 < 2 THEN "photo" ELSE "status",
      AccountID   |-> IF i % 2 = 0 THEN "account-1" ELSE "account-2",
      UserID      |-> IF i % 7 < 4 THEN "user-1" ELSE "user-2",
      ScheduledAt |-> TicksPerSecond * (1 + (i % 6)),
      HasMedia    |-> FALSE ]

\* The page query parameter: absent, the numbers -1..MaxPage, and a string
\* that is no number.
PageParams == {<<>>, <<"x">>} \cup {Itoa(p) : p \in (0 - 1)..MaxPage}

\* The filters of a posts request, one query parameter each.
SingleFilters ==
    { [NoQuery EXCEPT !.state = "scheduled"],
      [NoQuery EXCEPT !.states = <<"scheduled", "draft">>],
      [NoQuery EXCEPT !.accountIDs = <<"account-1">>],
      [NoQuery EXCEPT !.query = <<"A">>],
      [NoQuery EXCEPT !.postType = "photo"],
      [NoQuery EXCEPT !.memberID = "user-1"],
      [NoQuery EXCEPT !.from = FormatRFC3339(3 * TicksPerSecond)],
      [NoQuery EXCEPT !.to = FormatRFC3339(5 * TicksPerSecond)] }

\* The query with the parameters of both f and g.
BothFilters(f, g) ==
    [k \in DOMAIN NoQuery |-> IF f[k] # NoQuery[k] THEN f[k] ELSE g[k]]

\* The filter parameters sent: none, one, or two different ones.
FilterQueries ==
    {NoQuery} \cup SingleFilters
        \cup {BothFilters(f, g) : f \in SingleFilters, g \in SingleFilters}

\* The list requests: every endpoint with every page parameter, the posts
\* endpoint with every filter as well.
ListRequests ==
    {RequestAs("GET", PostsPath, [q EXCEPT !.page = pg], NoBody, "ok", "ok") :
         q \in FilterQueries, pg \in PageParams}
    \cup {RequestAs("GET", path, [NoQuery EXCEPT !.page = pg], NoBody, "ok", "ok") :
              path \in {AccountsPath, WorkspacesPath}, pg \in PageParams}

\* server.AddPosts(posts) with n posts, on an empty collection
DoLoadPosts(n) ==
    /\ m.posts = <<>>
    /\ m' = AddPosts(m, [i \in 1..n |-> ListPost(i)])
    /\ UNCHANGED <<clock, iterVars, postVars, waitVars, rt, extVars, timeVars, cfg, trail>>

\* One collection is loaded, then one list request is served.
NextList ==
    \/ \E n \in 1..MaxItems : ~last.made /\ m = SpawnMockServer /\ DoLoadPosts(n)
    \/ \E n \in 1..MaxItems : ~last.made /\ m = SpawnMockServer /\ DoAddAccounts(n)
    \/ \E n \in 1..MaxItems : ~last.made /\ m = SpawnMockServer /\ DoAddWorkspaces(n)
    \/ \E r \in ListRequests : ~last.made /\ DoRequest(r)

SpecList == InitWait /\ [][NextList]_vars

\* ------------------------------------------------------- lists: properties

\* The latest request was a list request that passed the credential checks
\* and was answered.
ListAnswered ==
    /\ last.made /\ last.passed /\ ~last.resp.panic
    /\ last.key.method = "GET"
    /\ last.key.path \in {PostsPath, AccountsPath, WorkspacesPath}

\* The page number the latest request asked for.
AskedPage == IF last.query.page = <<>> THEN 1 ELSE Atoi(last.query.page)

\* The posts of the collection that pass every filter of q, in their order.
FilteredView(q) == SelectSeq(m.posts, LAMBDA post : PostMatches(post, q))

\* The collection the latest request listed, filtered as it asked.
ListedView ==
    IF last.key.path = PostsPath THEN FilteredView(last.query)
    ELSE IF last.key.path = AccountsPath THEN m.accounts
    ELSE m.workspaces

\* ceil(total / perPage), and 1 when total is 0.
PagesOf(total) ==
    IF total = 0 THEN 1
    ELSE CHOOSE n \in 1..total : (n - 1) * defaultPerPage < total /\ total <= n * defaultPerPage

\* The answer of the same endpoint, on the same server, for page p.
AnswerForPage(p) ==
    Dispatch(m, RequestAs("GET", last.key.path, [last.query EXCEPT !.page = Itoa(p)],
                          NoBody, "ok", "ok"), clock).resp

\* C13: every list handler reports total = the size of the (filtered)
\* collection and total_pages = max(1, ceil(total / 10)), for every size
\* including 0, and the same two values on every page number.
C13_TotalPages ==
    ListAnswered =>
        /\ last.resp.body.Total = Len(ListedView)
        /\ last.resp.body.PerPage = defaultPerPage
        /\ last.resp.body.TotalPages = PagesOf(Len(ListedView))
        /\ \A p \in 1..MaxPage :
              /\ AnswerForPage(p).body.Total = last.resp.body.Total
              /\ AnswerForPage(p).body.TotalPages = last.resp.body.TotalPages

\* Page 3 of 25 workspaces was listed: 5 items, total_pages 3.
C13_Witness ==
    /\ ListAnswered /\ last.key.path = WorkspacesPath
    /\ Len(m.workspaces) = 25 /\ AskedPage = 3
    /\ Len(last.resp.body.Posts) = 5
    /\ last.resp.body.TotalPages = 3

\* C14: for every page number p >= 1 the posts handler answers 200 with the
\* items at positions [(p-1)*10, min(p*10, total)) of the filtered view, in
\* order, and with no items when (p-1)*10 >= total.
C14_PageSlice ==
    (last.made /\ last.passed /\ last.key = Key("GET", PostsPath) /\ AskedPage >= 1) =>
        LET view  == FilteredView(last.query)
            total == Len(view)
            from  == (AskedPage - 1) * 10
            to    == Min(AskedPage * 10, total)
        IN  /\ ~last.resp.panic
            /\ last.resp.code = 200
            /\ last.resp.body.Page = AskedPage
            /\ last.resp.body.Posts =
                   IF from >= total THEN <<>> ELSE [i \in 1..(to - from) |-> view[from + i]]

\* Page 3 of 25 unfiltered posts is posts 21..25, and page 4 is empty.
C14_Witness ==
    /\ last.made /\ last.key = Key("GET", PostsPath) /\ last.query.state = ""
    /\ Len(m.posts) = 25 /\ last.query = [NoQuery EXCEPT !.page = <<"3">>]
    /\ last.resp.body.Posts = [i \in 1..5 |-> ListPost(20 + i)]
    /\ AnswerForPage(4).code = 200
    /\ AnswerForPage(4).body.Posts = <<>>

\* C15: every request that passes the credential checks is answered with a
\* status code and a body; no handler panics, whatever the page parameter.
C15_NeverPanics ==
    (last.made /\ last.passed) =>
        /\ ~last.resp.panic
        /\ last.resp.code \in 100..599
        /\ last.resp.body.type # "none"

\* A list request with page=0 was sent and passed the credential checks.
C15_Witness ==
    /\ last.made /\ last.passed
    /\ last.query.page = <<"0">>
    /\ last.key.path = AccountsPath
    /\ Len(m.accounts) = 1

\* The single filters that make up q.
FiltersOf(q) ==
    {f \in SingleFilters : \E k \in DOMAIN NoQuery : f[k] # NoQuery[k] /\ q[k] = f[k]}

\* Everything the posts handler returns for filter f alone, page after page.
RECURSIVE ListedFrom(_, _)
ListedFrom(f, p) ==
    LET body == Dispatch(m, RequestAs("GET", PostsPath, [f EXCEPT !.page = Itoa(p)],
                                      NoBody, "ok", "ok"), clock).resp.body
    IN  IF p >= body.TotalPages THEN body.Posts
        ELSE body.Posts \o ListedFrom(f, p + 1)

Alone(f) == ListedFrom(f, 1)

\* C16: with two filters active the posts handler returns the posts that each
\* filter alone returns, in the collection's order, and computes total,
\* total_pages and the page slice from that intersection.
C16_FiltersIntersect ==
    (ListAnswered /\ last.key.path = PostsPath /\ AskedPage >= 1
                  /\ Cardinality(FiltersOf(last.query)) = 2) =>
        LET both == SelectSeq(m.posts,
                        LAMBDA post : \A f \in FiltersOf(last.query) : InSeq(post, Alone(f)))
            from == (AskedPage - 1) * 10
            to   == Min(AskedPage * 10, Len(both))
        IN  /\ last.resp.body.Total = Len(both)
            /\ last.resp.body.TotalPages = PagesOf(Len(both))
            /\ last.resp.body.Posts =
                   IF from >= Len(both) THEN <<>> ELSE [i \in 1..(to - from) |-> both[from + i]]

\* state=scheduled and postType=photo on 25 posts: each filter alone returns
\* more posts than the two together, and the page holds their intersection.
C16_Witness ==
    /\ ListAnswered /\ last.key.path = PostsPath /\ Len(m.posts) = 25
    /\ last.query = [NoQuery EXCEPT !.state = "scheduled", !.postType = "photo",
                                    !.page = <<"1">>]
    /\ last.resp.body.Total > 0
    /\ last.resp.body.Total < Len(Alone([NoQuery EXCEPT !.state = "scheduled"]))
    /\ last.resp.body.Total < Len(Alone([NoQuery EXCEPT !.postType = "photo"]))

\* ============================================================= jobs: state

\* AdvanceJobState calls made after one SetJobProgression.
MaxAdvances == 4

\* The progressions installed: of three, two and one snapshots, and empty.
InstalledProgressions ==
    Progressions \cup {<<JobStatus(JobA, "working", 50, NilResult, "")>>, <<>>}

\* What SetJobStatus stores in the job map while a progression may be active.
StaticSettings ==
    { JobStatus(JobA, "completed", 100, Ptr(ResultOK), ""),
      JobStatus(JobA, "failed", 0, NilResult, "boom") }

\* server.SetJobProgression(JobA, states)
DoInstall(states) ==
    /\ m' = SetJobProgression(m, JobA, states)
    /\ adv' = [has |-> TRUE, states |-> states, made |-> FALSE, ret |-> FALSE,
               trues |-> 0, calls |-> 0]
    /\ adv' # adv
    /\ UNCHANGED <<clock, iterVars, postVars, waitVars, rt, injVars, syncVars, timeVars, cfg, trail>>

\* The state after an AdvanceJobState call that returned r.
Advanced(r) ==
    /\ m' = r.m
    /\ adv' = [adv EXCEPT !.made = TRUE, !.ret = r.ret, !.calls = @ + 1,
                          !.trues = IF r.ret THEN @ + 1 ELSE @]

\* server.AdvanceJobState(JobA)
DoAdvance ==
    /\ adv.calls < MaxAdvances
    /\ Advanced(AdvanceJobState(m, JobA))
    /\ UNCHANGED <<clock, iterVars, postVars, waitVars, rt, injVars, syncVars, timeVars, cfg, trail>>

\* An authenticated GET /api/v1/job_status/{jobID}
StatusRequest(jobID) ==
    RequestAs("GET", JobStatusPath(jobID), NoQuery, NoBody, "ok", "ok")

NextJobs ==
    \/ \E p \in InstalledProgressions : DoInstall(p)
    \/ DoAdvance
    \/ \E js \in StaticSettings : DoSetJobStatus(js)
    \/ (clock = 1 /\ DoCreate([endpoint |-> "publish", path |-> PublishPath,
                                body |-> TextBody]))
    \/ \E j \in {JobA, JobUnknown} : DoRequest(StatusRequest(j))
    \/ DoReset

SpecJobs == InitWait /\ [][NextJobs]_vars

\* -------------------------------------------------------- jobs: properties

\* The cursor of JobA's progression.
Cursor == GetInt(m.jobProgressIndex, JobA)

\* AdvanceJobState(JobA) is called on a progression of L >= 1 snapshots with
\* the cursor before the last one: true, and the cursor moves by one.
C17_Advances ==
    (DoAdvance /\ Has(m.jobProgression, JobA) /\ Len(m.jobProgression[JobA]) >= 1
               /\ Cursor < Len(m.jobProgression[JobA]) - 1) =>
        /\ adv'.ret
        /\ GetInt(m'.jobProgressIndex, JobA) = Cursor + 1

\* AdvanceJobState(JobA) is called with the cursor on the last snapshot, or
\* with no progression: false, and the server is unchanged.
C17_Stops ==
    (DoAdvance /\ (~Has(m.jobProgression, JobA)
                   \/ (/\ Len(m.jobProgression[JobA]) >= 1
                       /\ Cursor = Len(m.jobProgression[JobA]) - 1))) =>
        /\ ~adv'.ret
        /\ m' = m

\* C17: for an installed progression of L >= 1 snapshots the cursor stays in
\* 0..L-1; AdvanceJobState returns true and moves the cursor by one while the
\* cursor is below L-1, and returns false and changes nothing at L-1 or when
\* there is no progression; of the calls after an installation the first L-1
\* return true and every later one false.
C17_CursorBounded ==
    /\ []((adv.has /\ Len(adv.states) >= 1) =>
            /\ Has(m.jobProgression, JobA)
            /\ Cursor >= 0 /\ Cursor <= Len(adv.states) - 1
            /\ adv.trues = Min(adv.calls, Len(adv.states) - 1)
            /\ Cursor = adv.trues)
    /\ [][C17_Advances /\ C17_Stops]_vars

\* Three snapshots were installed and AdvanceJobState was called four times:
\* two calls returned true, the latest false, and the cursor is on the last.
C17_Witness ==
    /\ adv.has /\ Len(adv.states) = 3
    /\ adv.calls = 4 /\ adv.trues = 2 /\ adv.made /\ ~adv.ret
    /\ Cursor = 2
    /\ m.jobs[JobA] = adv.states[3]

\* What a job-status request for jobID must be answered with.
ExpectedStatus(jobID) ==
    IF jobID = JobA /\ adv.has /\ Len(adv.states) >= 1
    THEN Response(200, [type |-> "jobstatus",
                        json |-> EncodeJobStatus(adv.states[adv.trues + 1])])
    ELSE IF Has(m.jobs, jobID)
    THEN Response(200, [type |-> "jobstatus", json |-> EncodeJobStatus(m.jobs[jobID])])
    ELSE Response(404, ErrorBody("not_found", "Job not found"))

\* C18: a job-status request for an id with a non-empty progression advanced
\* k times is answered with snapshot k of the progression, whatever the job
\* map holds for the id; the job map answers only when the id has no
\* non-empty progression, and an id in neither store gets 404 not_found.
C18_ProgressionFirst ==
    [][\A j \in {JobA, JobUnknown} :
          DoRequest(StatusRequest(j)) => last'.resp = ExpectedStatus(j)]_vars

\* A progression of three snapshots was advanced once, SetJobStatus stored
\* "completed" for the same id, and the status request was answered with the
\* progression's second snapshot.
C18_Witness ==
    /\ adv.has /\ Len(adv.states) = 3 /\ adv.trues = 1
    /\ Has(m.jobs, JobA) /\ m.jobs[JobA].Status = "completed"
    /\ last.made /\ last.key.path = JobStatusPath(JobA)
    /\ last.resp.code = 200
    /\ last.resp.body.json = EncodeJobStatus(adv.states[2])
    /\ adv.states[2].Status = "working"

\* ============================================================= bulk: state

\* The most posts in one bulk request.
MaxBulk == 4

\* The limits given to SetBulkOperationLimit.
LimitValues == 0..(MaxBulk - 1)

LimitMessage == "Bulk operation limit exceeded"

\* The bulk requests sent at server time now: publish and schedule with
\* 0..MaxBulk posts, and a schedule whose last post is not in the future.
BulkRequests(now) ==
    {RequestAs("POST", PublishPath, NoQuery,
               [NoBody EXCEPT !.hasPosts = TRUE, !.postTimes = [i \in 1..n |-> ZeroTime]],
               "ok", "ok") : n \in 0..MaxBulk}
    \cup {RequestAs("POST", SchedulePath, NoQuery,
                    [NoBody EXCEPT !.hasPosts = TRUE,
                                   !.postTimes = [i \in 1..n |-> now + TicksPerSecond]],
                    "ok", "ok") : n \in 0..MaxBulk}
    \cup {RequestAs("POST", SchedulePath, NoQuery,
                    [NoBody EXCEPT !.hasPosts = TRUE,
                                   !.postTimes = [i \in 1..n |->
                                       IF i = n THEN now ELSE now + TicksPerSecond]],
                    "ok", "ok") : n \in 1..MaxBulk}

NextBulk ==
    \/ \E l \in LimitValues : DoSetBulkOperationLimit(l)
    \/ \E r \in BulkRequests(clock) : DoRequest(r)

SpecBulk == InitWait /\ [][NextBulk]_vars

\* -------------------------------------------------------- bulk: properties

\* Whether every post of bulk request r may be scheduled at server time now.
Schedulable(r, now) ==
    \A i \in 1..Len(r.body.postTimes) :
        IsZero(r.body.postTimes[i]) \/ r.body.postTimes[i] > now

\* The answer to bulk request r, sent when the limit is m.bulkOpLimit.
C19_Step(r) ==
    DoRequest(r) =>
        IF m.bulkOpLimit > 0 /\ Len(r.body.postTimes) > m.bulkOpLimit
        THEN /\ last'.resp.code = 400
             /\ last'.resp.body.Message = LimitMessage
             /\ m'.jobs = m.jobs
        ELSE /\ last'.resp.body.type = "error" => last'.resp.body.Message # LimitMessage
             /\ Schedulable(r, clock) =>
                    /\ last'.resp.code = 200
                    /\ m'.jobs = Put(m.jobs, last'.resp.body.JobID,
                                     JobStatus(last'.resp.body.JobID, "pending", 0,
                                               NilResult, ""))

\* C19: a bulk publish or bulk schedule request with more posts than a
\* positive bulk limit is answered 400 and creates no job; a request with at
\* most as many posts as the limit, or any number when the limit is 0, is not
\* rejected for its size.
C19_BulkLimit == [][\A r \in BulkRequests(clock) : C19_Step(r)]_vars

\* With a limit of 2, a bulk schedule of two posts created a job and one of
\* three posts was then rejected.
C19_Witness ==
    /\ m.bulkOpLimit = 2
    /\ last.made /\ last.key = Key("POST", SchedulePath)
    /\ last.resp.code = 400 /\ last.resp.body.Message = LimitMessage
    /\ Cardinality(DOMAIN m.jobs) = 1
    /\ \E id \in DOMAIN m.jobs : m.jobs[id].Status = "pending"

\* ===================================================== concurrency: state

\* The requests served concurrently in one behaviour.
NumProcs == 3

\* Whether Lock can be taken: no writer and no reader holds the mutex.
LockIgnored(lock) == TRUE

LockFree(lock) == lock.writer = 0 /\ lock.readers = 0

\* Whether RLock can be taken: no writer holds the mutex.
ReadLockFree(lock) == lock.writer = 0

\* The requests that arrive: two keys, and wrong credentials.
ConcRequests ==
    { TestRequest,
      RequestAs("GET", PostsPath, NoQuery, NoBody, "ok", "ok"),
      RequestAs("GET", TestPath, NoQuery, NoBody, "bad", "ok"),
      RequestAs("GET", TestPath, NoQuery, NoBody, "ok", "bad") }

\* The server starts a goroutine that runs handleRequest for r.
Arrive(r) ==
    /\ Len(procs) < NumProcs
    /\ procs' = Append(procs, [pc |-> "start", r |-> r, delay |-> 0, since |-> 0,
                                loaded |-> 0])
    /\ UNCHANGED <<m, clock, iterVars, postVars, waitVars, rt, injVars, adv, mu, timeVars, cfg, trail>>

\* m.mu.RLock()
RLock(p) ==
    /\ procs[p].pc = "start"
    /\ ReadLockFree(mu)
    /\ mu' = [mu EXCEPT !.readers = @ + 1]
    /\ procs' = [procs EXCEPT ![p].pc = "rlocked"]
    /\ UNCHANGED <<m, clock, iterVars, postVars, waitVars, rt, injVars, adv, timeVars, cfg, trail>>

\* delay := m.jobDelay; m.mu.RUnlock(); if delay > 0, time.Sleep(delay) begins
ReadDelay(p) ==
    /\ procs[p].pc = "rlocked"
    /\ mu' = [mu EXCEPT !.readers = @ - 1]
    /\ procs' = [procs EXCEPT ![p].pc = IF m.jobDelay > 0 THEN "sleeping" ELSE "ready",
                              ![p].delay = m.jobDelay,
                              ![p].since = wall]
    /\ UNCHANGED <<m, clock, iterVars, postVars, waitVars, rt, injVars, adv, timeVars, cfg, trail>>

\* m.mu.Lock(), the credential checks, and the load of m.callCounts[key]
Lock(p) ==
    /\ procs[p].pc = "ready"
    /\ LockFree(mu)
    /\ mu' = [mu EXCEPT !.writer = p]
    /\ procs' = [procs EXCEPT
                    ![p].pc = IF Passes(procs[p].r) THEN "counted" ELSE "rejected",
                    ![p].loaded = GetInt(m.callCounts,
                                         Key(procs[p].r.method, procs[p].r.path))]
    /\ UNCHANGED <<m, clock, iterVars, postVars, waitVars, rt, injVars, adv, timeVars, cfg, trail>>

\* The 401 or 400 of a failed credential check is written; the deferred
\* Unlock runs.
Reject(p) ==
    /\ procs[p].pc = "rejected"
    /\ mu' = [mu EXCEPT !.writer = 0]
    /\ procs' = [procs EXCEPT ![p].pc = "done"]
    /\ UNCHANGED <<m, clock, iterVars, postVars, waitVars, rt, injVars, adv, timeVars, cfg, trail>>

\* The store of the counter and the rest of handleRequest; the deferred
\* Unlock runs.
Serve(p) ==
    /\ procs[p].pc = "counted"
    /\ Exchanged(procs[p].r, handleCounted(m, procs[p].r, clock, procs[p].loaded))
    /\ mu' = [mu EXCEPT !.writer = 0]
    /\ procs' = [procs EXCEPT ![p].pc = "done"]
    /\ UNCHANGED <<iterVars, postVars, waitVars, rt, rule, canned, adv, timeVars, cfg, trail>>

\* server.Reset(), which takes the write lock
LockedReset == LockFree(mu) /\ DoReset

NextConc ==
    \/ \E r \in ConcRequests : Arrive(r)
    \/ \E p \in 1..Len(procs) : RLock(p)
    \/ \E p \in 1..Len(procs) : ReadDelay(p)
    \/ \E p \in 1..Len(procs) : Lock(p)
    \/ \E p \in 1..Len(procs) : Reject(p)
    \/ \E p \in 1..Len(procs) : Serve(p)
    \/ LockedReset

SpecConc == InitWait /\ [][NextConc]_vars

\* ------------------------------------------------- concurrency: properties

\* The keys requests are sent to.
ConcKeys == {Key(r.method, r.path) : r \in ConcRequests}

\* No counter goes down or jumps except by Reset.
C20_Monotonic ==
    DoReset \/ \A k \in ConcKeys :
                  /\ GetInt(m'.callCounts, k) >= GetInt(m.callCounts, k)
                  /\ GetInt(m'.callCounts, k) <= GetInt(m.callCounts, k) + 1

\* C20: under every interleaving of concurrent requests and Reset, each
\* key's call counter never decreases between Resets, and whenever no
\* request is inside the locked section it equals the number of requests to
\* the key that passed the credential checks and were served since the
\* latest Reset (so k such requests leave it at k).
C20_CountsEveryCall ==
    /\ [](mu.writer = 0 =>
            \A k \in ConcKeys : GetInt(m.callCounts, k) = GetInt(sent, k))
    /\ [][C20_Monotonic]_vars

\* Three requests were in flight together; two passed the checks for the
\* same key and the third was rejected; the key's counter is 2.
C20_Witness ==
    /\ Len(procs) = NumProcs
    /\ \A p \in 1..Len(procs) : procs[p].pc = "done"
    /\ Cardinality({p \in 1..Len(procs) : procs[p].r = TestRequest}) = 2
    /\ GetInt(m.callCounts, TestKey) = 2
    /\ GetInt(sent, TestKey) = 2
    /\ last.n = 2

\* ============================== accounts and workspaces iterators: state

\* The size of the larger batch of accounts or workspaces added: two pages.
MaxAccounts == 11

InitPlain ==
    /\ Fresh
    /\ it \in {ListAccounts, ListWorkspaces}

\* Iterators over accounts and workspaces; each collection is empty until one
\* batch is added, before or in the middle of an iteration.
NextPlain ==
    \/ \E k \in {1, MaxAccounts} : DoAddAccounts(k)
    \/ \E k \in {1, MaxAccounts} : DoAddWorkspaces(k)
    \/ \E ctx \in {"canceled", "deadline"} : DoNext(ctx, "ok")
    \/ \E net \in {"ok", "fail"} : DoNext("live", net)

SpecPlain == InitPlain /\ [][NextPlain]_vars

\* ------------------------- accounts and workspaces iterators: properties

\* The collection the iterator lists.
Listed == IF it.fetcher = "accounts" THEN m.accounts ELSE m.workspaces

\* The first Next call of an iterator over an empty collection.
C21_FirstNext ==
    (Listed = <<>> /\ ~call.made /\ DoNext("live", "ok")) =>
        /\ call'.wrote
        /\ outPage'.Total = 0 /\ outPage'.Page = 1
        /\ outPage'.PerPage = 10 /\ outPage'.Items = <<>>
        /\ ~call'.ret
        /\ it'.err = Nil

\* A Next call after the empty page was delivered.
C21_FurtherNext ==
    \A net \in Networks :
        (Listed = <<>> /\ delivered # <<>> /\ DoNext("live", net)) =>
            /\ ~call'.ret
            /\ call'.fetched = <<>>
            /\ fetchLog' = fetchLog

\* C21: on an empty accounts or workspaces collection the first Next
\* delivers one empty page (Total 0, Page 1, PerPage 10, no items) and
\* returns false with Err() nil, and every further Next returns false
\* without another fetch.
C21_EmptyTerminates == [][C21_FirstNext /\ C21_FurtherNext]_vars

\* After the empty first page of an empty collection a second Next call was
\* made, and it fetched page 2.
C21_Witness ==
    /\ Listed = <<>>
    /\ Len(delivered) = 2
    /\ delivered[1].Page = 1 /\ delivered[1].Total = 0 /\ delivered[1].TotalPages = 0
    /\ fetchLog = <<1, 2>>
    /\ ~call.ret /\ it.err = Nil

\* totalPages changes only in a Next call that fetched page 1 and wrote it,
\* and becomes that page's total_pages.
C22_AssignedByPageOne ==
    it'.totalPages # it.totalPages =>
        /\ call'.fetched = <<1>>
        /\ call'.wrote
        /\ it'.totalPages = outPage'.TotalPages

\* Page 1 was fetched and delivered.
PageOneDelivered == delivered # <<>> /\ delivered[1].Page = 1

\* Every page requested so far is one of 1..total_pages of page 1.
C22_OnlyFirstTotal ==
    PageOneDelivered =>
        /\ it.totalPages = delivered[1].TotalPages
        /\ \A i \in 1..Len(fetchLog) : fetchLog[i] \in 1..delivered[1].TotalPages

\* C22: totalPages is assigned only by the successful fetch of page 1 and
\* never changes afterwards, whatever total_pages later pages report, so the
\* pages the iterator requests are among 1..total_pages of page 1.
C22_TotalPagesFixed ==
    /\ []C22_OnlyFirstTotal
    /\ [][C22_AssignedByPageOne]_vars

\* An iterator whose first page reported total_pages 0 still holds
\* totalPages 0 and has requested page 2 as well.
C22_Witness ==
    /\ PageOneDelivered
    /\ delivered[1].TotalPages = 0
    /\ it.totalPages = 0
    /\ fetchLog = <<1, 2>>

\* -------------------------------------------- iterator: order of fetches

\* C23: iteration is lazy and sequential: a new iterator has fetched nothing
\* and sent nothing to the server, a Next call makes at most one FetchPage
\* call, and the page numbers passed to FetchPage so far are 1, 2, 3, ... in
\* order, none twice and none skipped.
C23_LazySequential ==
    /\ ~call.made =>
          (fetchLog = <<>> /\ GetInt(m.callCounts, Key("GET", PostsPath)) = 0)
    /\ Len(call.fetched) <= 1
    /\ fetchLog = [i \in 1..Len(fetchLog) |-> i]
    /\ it.currentPage = Len(fetchLog)
    /\ GetInt(m.callCounts, Key("GET", PostsPath)) <= Len(fetchLog)

\* Three pages were fetched by three Next calls, one after a fetch that
\* failed in between.
C23_Witness ==
    /\ fetchLog = <<1, 2, 3>>
    /\ Len(delivered) = 2
    /\ it.err # Nil
    /\ call.fetched = <<3>>

\* ------------------------------------------------ WaitForJob: the waits

\* The poll just made observed a status that keeps WaitForJob waiting.
KeptWaiting == w.pc = "waiting" /\ w'.pc = "waiting" /\ w'.polls = w.polls + 1

\* After a non-terminal status the next wait is min(2 * delay, maxDelay)
\* plus a jitter in [0, jitter).
C24_NextWait ==
    (KeptWaiting /\ w.initialDelay <= w.maxDelay) =>
        /\ w'.delay >= Min(2 * w.delay, w.maxDelay)
        /\ w'.delay < Min(2 * w.delay, w.maxDelay) + w.jitter

\* The wait before the next status query is at most maxDelay + jitter.
C24_WaitAtMost ==
    (w.pc = "waiting" /\ w.initialDelay <= w.maxDelay) =>
        w.delay <= w.maxDelay + w.jitter

\* C24: in WaitForJob (for initialDelay <= maxDelay) the wait after each
\* non-terminal status is min(2 * delay, maxDelay) plus a jitter in
\* [0, jitter), so every wait is at most maxDelay + jitter however many
\* non-terminal statuses were observed.
C24_BoundedWait ==
    /\ []C24_WaitAtMost
    /\ [][C24_NextWait]_vars

\* Two non-terminal statuses were observed with maxDelay 20ms and jitter
\* 5ms, and the next wait is 28ms.
C24_Witness ==
    /\ w.pc = "waiting"
    /\ w.polls = 2
    /\ w.initialDelay = 10 * Millisecond
    /\ w.maxDelay = 20 * Millisecond
    /\ w.jitter = 5 * Millisecond
    /\ w.delay = 28 * Millisecond

\* ============================================ WaitForJob: failed requests

\* The WaitOptions of the tests.
TestTimings ==
    [InitialDelay |-> 10 * Millisecond, MaxDelay |-> 100 * Millisecond,
     Jitter |-> 5 * Millisecond]

\* server.SetErrorResponse("GET", "/api/v1/job_status/{JobA}", N, status,
\* body, headers)
DoInjectStatusError(N, e) ==
    /\ w.pc \in {"idle", "waiting"}
    /\ m.errorResponses = EmptyMap
    /\ m' = SetErrorResponse(m, "GET", JobStatusPath(JobA), N, e.status, e.body,
                             e.headers)
    /\ UNCHANGED <<clock, iterVars, postVars, waitVars, rt, extVars, timeVars, cfg, trail>>

\* WaitForJob on a job whose status requests fail: the job is unknown to the
\* server, the transport fails, the context has ended, or an injected error
\* fires at the first request or a later one.
NextPollErr ==
    \/ DoSetJobStatus(JobStatus(JobA, "pending", 0, NilResult, ""))
    \/ DoSetJobStatus(JobStatus(JobA, "completed", 100, Ptr(ResultOK), ""))
    \/ \E N \in 1..MaxThreshold, e \in ErrorReplies : DoInjectStatusError(N, e)
    \/ \E j \in {JobA, JobUnknown} : DoStartWait(j, TestTimings, PriorResult)
    \/ \E how \in {"canceled", "deadline"} : DoCtxEnd(how)
    \/ DoWaitCtxDone
    \/ \E net \in Networks, r \in JitterSamples(w.jitter) : DoWaitPoll(net, r)

SpecPollErr == InitWait /\ [][NextPollErr]_vars

\* ------------------------------------- WaitForJob: failed requests, properties

StatusKey == Key("GET", JobStatusPath(w.jobID))

\* How the next status request fails, from the state it is sent in: "" when
\* it does not.
FailureOf(net) ==
    IF wctx # "live" THEN "context"
    ELSE IF net = "fail" THEN "transport"
    ELSE IF /\ Has(m.errorResponses, StatusKey)
            /\ GetInt(m.callCounts, StatusKey) + 1
                   >= m.errorResponses[StatusKey].CallThreshold
    THEN "injected"
    ELSE IF ~Has(m.jobs, w.jobID) THEN "not found"
    ELSE ""

\* Whether err is the error of a request that failed as f says.
IsFailure(err, f) ==
    IF f = "context" THEN err = Wrap("request failed", CtxErr(wctx))
    ELSE IF f = "transport" THEN err = Wrap("request failed", TransportErr)
    ELSE IF f = "injected"
    THEN /\ err.kind = IF m.errorResponses[StatusKey].StatusCode = 429
                       THEN "ratelimit" ELSE "api"
         /\ err.StatusCode = m.errorResponses[StatusKey].StatusCode
    ELSE /\ err.kind = "api"
         /\ err.StatusCode = 404

\* One poll: a request that fails ends WaitForJob with the request's error
\* and *result as it was; a request that does not fail is observed.
C25_Poll ==
    \A net \in Networks, r \in JitterSamples(w.jitter) :
        DoWaitPoll(net, r) =>
            /\ w'.polls = w.polls + 1
            /\ GetInt(m'.callCounts, StatusKey) <= GetInt(m.callCounts, StatusKey) + 1
            /\ IF FailureOf(net) = "" THEN w'.observed
               ELSE /\ ~w'.observed
                    /\ w'.pc = "returned"
                    /\ IsFailure(w'.err, FailureOf(net))
                    /\ w'.result = w.result

\* Once WaitForJob has returned nothing more is requested.
C25_Returned ==
    w.pc = "returned" =>
        /\ w' = w
        /\ m'.callCounts = m.callCounts

\* C25: WaitForJob never retries a failed status request: when a status
\* request fails (transport, 404, injected 5xx or 429) WaitForJob returns
\* that error at once, sends no further status request, and leaves the
\* caller's JobResult as it was.
C25_NoRetry ==
    /\ []((w.polls >= 1 /\ ~w.observed) =>
             (w.pc = "returned" /\ w.err # Nil /\ w.result = PriorResult))
    /\ [][C25_Poll /\ C25_Returned]_vars

\* The first status request was answered pending, the second with the
\* injected 429, and WaitForJob returned the rate-limit error.
C25_Witness ==
    /\ w.pc = "returned"
    /\ w.polls = 2
    /\ ~w.observed
    /\ w.err.kind = "ratelimit"
    /\ w.result = PriorResult
    /\ GetInt(m.callCounts, Key("GET", JobStatusPath(JobA))) = 2

\* ================================================== WaitForJob: the timer

\* A select that takes the timer's branch before the delay has elapsed.
TimerAlwaysReady(at, armed, delay) == TRUE

\* case <-time.After(delay): ready once delay has elapsed since the call of
\* time.After.
TimerReady(at, armed, delay) == at >= armed + delay

\* The WaitOptions of the timed calls: all defaults, and the tests' timings.
TimedOptions == {[InitialDelay |-> 0, MaxDelay |-> 0, Jitter |-> 0], TestTimings}

\* client.WaitForJob(ctx, opts, &result) is called; the first select makes
\* its timer.
DoTimedStart(jobID, opts) ==
    /\ w.pc = "idle"
    /\ w' = StartWaitForJob(jobID, opts, PriorResult)
    /\ called' = wall
    /\ timer' = wall
    /\ UNCHANGED <<m, clock, iterVars, postVars, wctx, served, stuck, rt, extVars,
                   wall, cfg, trail>>

\* Time passes while WaitForJob waits in its select: up to just before the
\* timer is due, or up to when it is due.
DoTimePasses(to) ==
    /\ w.pc = "waiting"
    /\ to > wall
    /\ to <= timer + w.delay
    /\ wall' = to
    /\ UNCHANGED <<m, clock, iterVars, postVars, waitVars, rt, extVars, timer,
                   called, cfg, trail>>

\* The select takes time.After(delay): one poll, and, when WaitForJob keeps
\* waiting, the timer of the next select.
DoTimedPoll(net, r) ==
    /\ w.pc = "waiting"
    /\ w.polls < MaxPolls
    /\ r \in JitterSamples(w.jitter)
    /\ TimerReady(wall, timer, w.delay)
    /\ AfterPoll(WaitPoll(w, m, wctx, net, r, clock))
    /\ timer' = wall
    /\ UNCHANGED <<clock, iterVars, postVars, wctx, rt, extVars, wall, called, cfg, trail>>

\* WaitForJob with its timer: the job's status is set, the context ends
\* before or after the call, time passes, and the select takes whichever
\* branch is ready.
NextTimer ==
    \/ DoSetJobStatus(JobStatus(JobA, "pending", 0, NilResult, ""))
    \/ DoSetJobStatus(JobStatus(JobA, "completed", 100, Ptr(ResultOK), ""))
    \/ \E o \in TimedOptions : DoTimedStart(JobA, o)
    \/ \E how \in {"canceled", "deadline"} : DoCtxEnd(how)
    \/ \E to \in {timer + w.delay - 1, timer + w.delay} : DoTimePasses(to)
    \/ DoWaitCtxDone
    \/ \E net \in Networks, r \in JitterSamples(w.jitter) : DoTimedPoll(net, r)

SpecTimer == InitWait /\ [][NextTimer]_vars

\* -------------------------------------- WaitForJob: the timer, properties

\* A status request was sent: WaitForJob counts a poll, or the server a call.
Requested ==
    w.polls >= 1 \/ GetInt(m.callCounts, Key("GET", JobStatusPath(JobA))) >= 1

\* The call takes initialDelay from the options, one second when left zero.
C26_InitialDelay ==
    \A o \in TimedOptions :
        DoTimedStart(JobA, o) =>
            /\ w'.initialDelay = IF o.InitialDelay = 0 THEN 1000000 ELSE o.InitialDelay
            /\ w'.polls = 0
            /\ m' = m

\* With the context done and the timer not yet due, the only step of
\* WaitForJob returns the context's error without a status request.
C26_ContextOnly ==
    (w.pc = "waiting" /\ wctx # "live" /\ wall < timer + w.delay /\ w' # w) =>
        /\ w'.pc = "returned"
        /\ w'.err = [kind |-> "context", which |-> wctx]
        /\ w'.polls = w.polls
        /\ m' = m

\* C26: WaitForJob waits before it polls: no status request is sent before
\* initialDelay (one second by default) has elapsed since the call, and
\* when the context is done and the timer is not yet due WaitForJob returns
\* the context's error without a status request: none at all when the
\* context was done at the call.
C26_WaitsFirst ==
    /\ [](Requested => wall >= called + w.initialDelay)
    /\ [][C26_InitialDelay /\ C26_ContextOnly]_vars

\* WaitForJob was called with a context already cancelled, and returned its
\* error without a status request before any time passed.
C26_Witness ==
    /\ w.pc = "returned"
    /\ w.err = [kind |-> "context", which |-> "canceled"]
    /\ w.polls = 0
    /\ wall = called
    /\ m.callCounts = EmptyMap
    /\ w.initialDelay = 1000000

\* ============================================================ credentials

\* The Authorization and Publer-Workspace-Id headers of a request: right,
\* wrong or missing, in the combinations sent.
HeaderPairs ==
    { <<"ok", "ok">>, <<"wrong", "ok">>, <<"missing", "ok">>, <<"ok", "wrong">>,
      <<"ok", "missing">>, <<"wrong", "wrong">> }

\* The requests sent with each pair of headers: to the endpoint with the
\* error rule and the canned response, and to resource handlers that read
\* and that change posts and jobs.
GuardedRequests ==
    { RequestAs(b.method, b.path, NoQuery, b.body, h[1], h[2]) :
        b \in { [method |-> "GET", path |-> TestPath, body |-> NoBody],
                [method |-> "GET", path |-> PostsPath, body |-> NoBody],
                [method |-> "DELETE", path |-> PostPath(<<"post", 1>>), body |-> NoBody],
                [method |-> "POST", path |-> PublishPath, body |-> TextBody] },
        h \in HeaderPairs }

\* A server set up with a post, a job, a canned response and an error rule,
\* or some of them, then requests with right, wrong and missing credentials.
NextAuth ==
    \/ (~last.made /\ added = 0 /\ DoAddPosts(1))
    \/ (/\ ~last.made /\ ~Has(m.jobs, JobA)
        /\ DoSetJobStatus(JobStatus(JobA, "pending", 0, NilResult, "")))
    \/ (~last.made /\ DoSetResponse)
    \/ (/\ ~last.made /\ ~rule.set
        /\ DoConfigureError(1, CHOOSE e \in ErrorReplies : e.status = 500))
    \/ \E r \in GuardedRequests : DoRequest(r)

SpecAuth == InitWait /\ [][NextAuth]_vars

\* ------------------------------------------------ credentials: properties

\* C27: a request with a wrong or missing bearer token gets 401, one with
\* the right token and a wrong or missing workspace id gets 400, and neither
\* changes the server: the key's call counter, the error rules, the canned
\* responses, the collections and the jobs are as before, and the response is
\* the credential error whatever rule or canned response the key has.  A
\* request that passes both checks is counted.
C27_RejectedUntouched ==
    [][\A r \in GuardedRequests :
          DoRequest(r) =>
              IF r.auth # "ok"
              THEN /\ last'.resp.code = 401
                   /\ last'.resp.body.type = "error"
                   /\ last'.resp.body.Error = "unauthorized"
                   /\ m' = m
              ELSE IF r.workspace # "ok"
              THEN /\ last'.resp.code = 400
                   /\ last'.resp.body.type = "error"
                   /\ last'.resp.body.Error = "bad_request"
                   /\ m' = m
              ELSE GetInt(m'.callCounts, Key(r.method, r.path))
                       = GetInt(m.callCounts, Key(r.method, r.path)) + 1]_vars

\* A request without a workspace id was sent to the key that has an error
\* rule due at its first call and a canned response: it got 400, and the
\* key's counter is still 0.
C27_Witness ==
    /\ last.made /\ last.key = TestKey /\ ~last.passed
    /\ last.resp.code = 400
    /\ rule.set /\ rule.N = 1 /\ canned.set
    /\ Has(m.errorResponses, TestKey) /\ Has(m.responses, TestKey)
    /\ GetInt(m.callCounts, TestKey) = 0
    /\ Len(m.posts) = 1 /\ Has(m.jobs, JobA)

\* ============================================================= precedence

\* The requests whose keys get a canned response and an error rule: one no
\* resource handler serves, one that deletes a post, one that creates a job.
RoutedRequests ==
    { Request("GET", TestPath, NoQuery, NoBody),
      Request("DELETE", PostPath(<<"post", 1>>), NoQuery, NoBody),
      Request("POST", PublishPath, NoQuery, TextBody) }

\* server.SetResponse(method, path, 200, body) for the key of r
DoSetResponseFor(r) ==
    /\ ~last.made
    /\ ~Has(m.responses, Key(r.method, r.path))
    /\ m' = SetResponse(m, r.method, r.path, 200, OKBody)
    /\ UNCHANGED <<clock, iterVars, postVars, waitVars, rt, extVars, timeVars, cfg, trail>>

\* server.SetErrorResponse(method, path, N, status, body, headers) for the
\* key of r
DoSetErrorResponseFor(r, N, e) ==
    /\ ~last.made
    /\ ~Has(m.errorResponses, Key(r.method, r.path))
    /\ m' = SetErrorResponse(m, r.method, r.path, N, e.status, e.body, e.headers)
    /\ UNCHANGED <<clock, iterVars, postVars, waitVars, rt, extVars, timeVars, cfg, trail>>

\* A server with a post is given canned responses and error rules for some
\* keys, then serves requests to them.
NextPrecedence ==
    \/ (~last.made /\ added = 0 /\ DoAddPosts(1))
    \/ \E r \in RoutedRequests : DoSetResponseFor(r)
    \/ \E r \in RoutedRequests, N \in 1..MaxThreshold :
           DoSetErrorResponseFor(r, N, CHOOSE e \in ErrorReplies : e.status = 429)
    \/ \E r \in RoutedRequests : DoRequest(r)

SpecPrecedence == InitWait /\ [][NextPrecedence]_vars

\* ------------------------------------------------- precedence: properties

\* The server after a request to key that no resource handler served: only
\* the key's counter has changed.
OnlyCounted(key) ==
    m' = [m EXCEPT !.callCounts = Put(@, key, GetInt(m.callCounts, key) + 1)]

\* Whether key's counter reaches the threshold of its error rule with the
\* call being served.
RuleDue(key) ==
    /\ Has(m.errorResponses, key)
    /\ GetInt(m.callCounts, key) + 1 >= m.errorResponses[key].CallThreshold

\* C28: for a key with an error rule and a canned response the rule answers
\* when the counter has reached its threshold and the canned response
\* otherwise; a key with only one of them is answered by it (the rule, from
\* its threshold on); and a request answered by either reaches no resource
\* handler: posts and jobs, and everything but the key's counter, are as
\* before.
C28_Precedence ==
    [][\A r \in RoutedRequests :
          DoRequest(r) =>
              LET key == Key(r.method, r.path)
              IN  IF RuleDue(key)
                  THEN /\ last'.resp.code = m.errorResponses[key].StatusCode
                       /\ last'.resp.body = m.errorResponses[key].Body
                       /\ last'.resp.headers = m.errorResponses[key].Headers
                       /\ OnlyCounted(key)
                  ELSE IF Has(m.responses, key)
                  THEN /\ last'.resp.code = m.responses[key].StatusCode
                       /\ last'.resp.body = m.responses[key].Body
                       /\ OnlyCounted(key)
                  ELSE last'.resp.body # OKBody]_vars

\* The key that deletes post 1 has a canned response and an error rule with
\* threshold 2: the second request got the rule's 429, and the post is
\* still there.
C28_Witness ==
    LET key == Key("DELETE", PostPath(<<"post", 1>>))
    IN  /\ last.made /\ last.key = key
        /\ Has(m.responses, key) /\ Has(m.errorResponses, key)
        /\ m.errorResponses[key].CallThreshold = 2
        /\ GetInt(m.callCounts, key) = 2
        /\ last.resp.code = 429
        /\ Len(m.posts) = 1
        /\ m.jobs = EmptyMap

\* ================================== configuration calls and sleeping requests

\* The requests served while the test makes configuration calls.
MaxInFlight == 2

\* The writer field of the mutex while the test's goroutine holds it.
ConfigCaller == NumProcs + 1

\* A configuration method that does not wait for the lock.
ConfigLockIgnored(lock) == TRUE

\* m.mu.Lock() at the top of a configuration method.
ConfigLockFree(lock) == lock.writer = 0 /\ lock.readers = 0

\* A sleep that lasts as long as the server's delay is at waking time.
SleepTimeReread(p) == m.jobDelay

\* time.Sleep(delay): the local read before the sleep.
SleepTime(p) == procs[p].delay

\* The configuration calls made while requests are served.
ConfigCalls == {"Reset", "SetDelay", "AddPosts"}

\* Whether the test makes call op on server srv: a call that changes it.
Makes(op, srv) ==
    IF op = "Reset" THEN srv # SpawnMockServer
    ELSE IF op = "SetDelay" THEN srv.jobDelay = 0
    ELSE srv.posts = <<>>

\* The body of configuration method op, for the methods that assign one field.
Configured(op, srv) ==
    IF op = "SetDelay" THEN SetDelay(srv, 50 * Millisecond)
    ELSE AddPosts(srv, <<MkPost(1)>>)

\* A configuration method takes the write lock.
ConfigLock(op) ==
    /\ cfg.pc = "idle"
    /\ Makes(op, m)
    /\ ConfigLockFree(mu)
    /\ mu' = [mu EXCEPT !.writer = ConfigCaller]
    /\ cfg' = [pc |-> "locked", op |-> op, before |-> m]
    /\ UNCHANGED <<m, clock, iterVars, postVars, waitVars, rt, injVars, adv, procs,
                   timeVars, trail>>

\* Reset assigns jobs, progressions, collections and the current user.
ResetBegins ==
    /\ cfg.pc = "locked"
    /\ cfg.op = "Reset"
    /\ m' = ResetCollections(m)
    /\ cfg' = [cfg EXCEPT !.pc = "half"]
    /\ UNCHANGED <<clock, iterVars, postVars, waitVars, rt, injVars, adv, syncVars,
                   timeVars, trail>>

\* Reset assigns responses, error rules, counters and the delay; the
\* deferred Unlock runs.
ResetEnds ==
    /\ cfg.pc = "half"
    /\ m' = Reset(m)
    /\ mu' = [mu EXCEPT !.writer = 0]
    /\ cfg' = NoConfig
    /\ UNCHANGED <<clock, iterVars, postVars, waitVars, rt, injVars, adv, procs,
                   timeVars, trail>>

\* SetDelay or AddPosts assigns its field; the deferred Unlock runs.
ConfigRuns ==
    /\ cfg.pc = "locked"
    /\ cfg.op # "Reset"
    /\ m' = Configured(cfg.op, m)
    /\ mu' = [mu EXCEPT !.writer = 0]
    /\ cfg' = NoConfig
    /\ UNCHANGED <<clock, iterVars, postVars, waitVars, rt, injVars, adv, procs,
                   timeVars, trail>>

\* Time passes until the sleep of request p is over.
SleepPasses(p) ==
    /\ procs[p].pc = "sleeping"
    /\ wall < procs[p].since + procs[p].delay
    /\ wall' = procs[p].since + procs[p].delay
    /\ UNCHANGED <<m, clock, iterVars, postVars, waitVars, rt, extVars, timer, called,
                   cfg, trail>>

\* time.Sleep(delay) returns.
Wake(p) ==
    /\ procs[p].pc = "sleeping"
    /\ wall >= procs[p].since + SleepTime(p)
    /\ procs' = [procs EXCEPT ![p].pc = "ready"]
    /\ UNCHANGED <<m, clock, iterVars, postVars, waitVars, rt, injVars, adv, mu,
                   timeVars, cfg, trail>>

\* Requests served concurrently, each with its read of the delay, its sleep
\* and its locked section, while the test makes configuration calls.
NextLocked ==
    \/ (/\ Len(procs) < MaxInFlight
        /\ \E r \in {TestRequest, Request("GET", PostsPath, NoQuery, NoBody)} : Arrive(r))
    \/ \E p \in 1..Len(procs) : RLock(p)
    \/ \E p \in 1..Len(procs) : ReadDelay(p)
    \/ \E p \in 1..Len(procs) : SleepPasses(p)
    \/ \E p \in 1..Len(procs) : Wake(p)
    \/ \E p \in 1..Len(procs) : Lock(p)
    \/ \E p \in 1..Len(procs) : Serve(p)
    \/ \E op \in ConfigCalls : ConfigLock(op)
    \/ ResetBegins
    \/ ResetEnds
    \/ ConfigRuns

SpecLocked == InitWait /\ [][NextLocked]_vars

\* ------------------- configuration calls and sleeping requests: properties

\* The requests inside the section of handleRequest that holds the write lock.
InSection == {p \in 1..Len(procs) : procs[p].pc \in {"counted", "rejected"}}

\* The number of configuration calls between their Lock and Unlock.
Configuring == IF cfg.pc # "idle" THEN 1 ELSE 0

\* The mutex is held by exactly those inside a locked section: one writer
\* at most, and readers only without a writer.
C29_OneAtATime ==
    /\ Cardinality(InSection) + Configuring <= 1
    /\ \A p \in InSection : mu.writer = p
    /\ cfg.pc # "idle" => mu.writer = ConfigCaller
    /\ (mu.writer # 0) = (Cardinality(InSection) + Configuring = 1)
    /\ mu.readers = Cardinality({p \in 1..Len(procs) : procs[p].pc = "rlocked"})
    /\ mu.writer # 0 => mu.readers = 0

\* A step of request p that reads or writes the server: the read of the
\* delay, the credential checks with the load of the counter, the handlers.
Touches(p) ==
    /\ procs[p].pc \in {"rlocked", "ready", "counted", "rejected"}
    /\ procs'[p].pc # procs[p].pc

\* Sections do not interleave: a request touches the server only while no
\* configuration call is in progress, nothing but the call changes the
\* server while one is, a call ends on what it started from with all its
\* assignments made, and nothing but the request changes the server while
\* the request is in its section.
C29_NoInterleaving ==
    /\ \A p \in 1..Len(procs) : Touches(p) => (cfg.pc = "idle" /\ cfg' = cfg)
    /\ cfg.pc # "idle" => (m' = m \/ cfg' # cfg)
    /\ (cfg.pc = "half" /\ cfg'.pc = "idle") => m' = Reset(cfg.before)
    /\ (cfg.pc = "locked" /\ cfg'.pc = "idle") => m' = Configured(cfg.op, cfg.before)
    /\ \A p \in InSection : m' = m \/ procs'[p].pc = "done"

\* C29: the part of handleRequest after the delay and every configuration
\* method run under the one write lock, so they never interleave: a request
\* sees the server as it was before a Reset or other configuration call or
\* as it is after it, never in between.
C29_Serialized ==
    /\ []C29_OneAtATime
    /\ [][C29_NoInterleaving]_vars

\* Reset has cleared the posts and not yet the delay, while one request
\* waits for the write lock and another for the read lock.
C29_Witness ==
    /\ cfg.pc = "half"
    /\ cfg.before.posts # <<>> /\ m.posts = <<>>
    /\ m.jobDelay > 0
    /\ Len(procs) = 2
    /\ procs[1].pc = "ready"
    /\ procs[2].pc = "start"

\* A sleeping request holds no lock: with every request asleep or outside
\* the handler's locks and no configuration call in progress the mutex is
\* free.
C30_HoldsNoLock ==
    /\ \A p \in 1..Len(procs) : procs[p].pc = "sleeping" => mu.writer # p
    /\ (/\ cfg.pc = "idle"
        /\ \A p \in 1..Len(procs) : procs[p].pc \in {"start", "sleeping", "ready", "done"})
           => mu = Unlocked

\* The sleep lasts as long as the delay read under the read lock, whatever
\* the server's delay becomes meanwhile.
C30_SleepsWhatItRead ==
    \A p \in 1..Len(procs) :
        /\ (procs[p].pc = "rlocked" /\ procs'[p].pc # "rlocked") =>
               /\ procs'[p].delay = m.jobDelay
               /\ procs'[p].since = wall
               /\ procs'[p].pc = IF m.jobDelay > 0 THEN "sleeping" ELSE "ready"
        /\ procs[p].pc = "sleeping" =>
               /\ procs'[p].delay = procs[p].delay
               /\ procs'[p].pc # "sleeping" => wall >= procs[p].since + procs[p].delay

\* C30: a request sleeping for the artificial delay holds no lock, so other
\* requests and configuration calls take the lock and complete meanwhile,
\* and it sleeps for the delay it read before, also when SetDelay or Reset
\* changes the server's delay during the sleep.
C30_SleepsUnlocked ==
    /\ []C30_HoldsNoLock
    /\ [][C30_SleepsWhatItRead]_vars

\* While the first request still sleeps for the 50ms it read, a Reset has
\* set the delay to 0 and a second request, which read 0, has been served.
C30_Witness ==
    /\ Len(procs) = 2
    /\ procs[1].pc = "sleeping"
    /\ procs[1].delay = 50 * Millisecond
    /\ wall < procs[1].since + procs[1].delay
    /\ m.jobDelay = 0
    /\ cfg.pc = "idle"
    /\ procs[2].pc = "done" /\ procs[2].delay = 0
    /\ last.made
    /\ mu = Unlocked

\* ------------------------------------------ post management: get and delete

\* The posts a test adds in all, and the requests it sends.
MaxManaged == 4
MaxTrail == 3

\* The ids the managed posts carry; a test may add a post under an id that
\* the collection already holds.
ManagedIds == {1, 2}

\* The post added under id as the serial-th post of the test: posts added
\* under one id still differ in their other fields.
ManagedPost(id, serial) == [MkPost(serial) EXCEPT !.ID = <<"post", id>>]

\* The batches a single AddPosts call is given.
ManagedBatches == {<<i>> : i \in ManagedIds} \cup {<<i, j>> : i, j \in ManagedIds}

\* server.AddPosts(posts), the posts carrying the ids of batch; the test
\* builds its collection before it sends requests.
DoAddManaged(batch) ==
    /\ added + Len(batch) <= MaxManaged
    /\ trail = <<>>
    /\ m' = AddPosts(m, [j \in 1..Len(batch) |-> ManagedPost(batch[j], added + j)])
    /\ added' = added + Len(batch)
    /\ UNCHANGED <<clock, iterVars, modified, waitVars, rt, extVars, timeVars, cfg, trail>>

\* server.AddScheduledPost(post)
DoAddScheduledPost(id) ==
    /\ added + 1 <= MaxManaged
    /\ trail = <<>>
    /\ m' = AddScheduledPost(m, ManagedPost(id, added + 1))
    /\ added' = added + 1
    /\ UNCHANGED <<clock, iterVars, modified, waitVars, rt, extVars, timeVars, cfg, trail>>

\* client.GetPost / client.DeletePost for the post id: the call is noted with
\* the collection before and after it.
DoManage(method, id) ==
    /\ Len(trail) < MaxTrail
    /\ LET d == do(m, "live", "ok", method, PostPath(<<"post", id>>), NoQuery, NoBody, clock)
       IN  /\ m' = d.m
           /\ trail' = Append(trail, [method |-> method, id |-> <<"post", id>>,
                                      err |-> d.err, result |-> d.result,
                                      before |-> m.posts, after |-> d.m.posts])
    /\ clock' = clock + 1
    /\ UNCHANGED <<iterVars, postVars, waitVars, rt, extVars, timeVars, cfg>>

NextManage ==
    \/ \E batch \in ManagedBatches : DoAddManaged(batch)
    \/ \E id \in ManagedIds : DoAddScheduledPost(id)
    \/ \E id \in ManagedIds : DoManage("DELETE", id)
    \/ \E id \in ManagedIds : DoManage("GET", id)

SpecManage == InitWait /\ [][NextManage]_vars

\* The 404 "Post not found" a client call returns.
IsNotFound(err, method, id) ==
    err = [kind |-> "api", Method |-> method, Path |-> PostPath(id),
           StatusCode |-> 404, Message |-> "Post not found"]

HoldsId(posts, id) == \E i \in 1..Len(posts) : posts[i].ID = id

\* s without its k-th element.
Without(s, k) == [j \in 1..(Len(s) - 1) |-> IF j < k THEN s[j] ELSE s[j + 1]]

\* A DELETE of an id the collection does not hold returns 404 "Post not
\* found" and leaves the collection as it was.
C31_MissIs404 ==
    \A i \in 1..Len(trail) :
        (trail[i].method = "DELETE" /\ ~HoldsId(trail[i].before, trail[i].id))
            => /\ IsNotFound(trail[i].err, "DELETE", trail[i].id)
               /\ trail[i].after = trail[i].before

\* A DELETE that succeeds removes one post of that id, the first, and the
\* other posts keep their relative order.
C31_KeepsOrder ==
    \A i \in 1..Len(trail) :
        (trail[i].method = "DELETE" /\ trail[i].err = Nil)
            => \E k \in 1..Len(trail[i].before) :
                   /\ trail[i].before[k].ID = trail[i].id
                   /\ \A j \in 1..(k - 1) : trail[i].before[j].ID # trail[i].id
                   /\ trail[i].after = Without(trail[i].before, k)

\* A successful DELETE directly followed by a GET of the same id.
DeleteThenGet(i) ==
    /\ trail[i].method = "DELETE"
    /\ trail[i].err = Nil
    /\ trail[i + 1].method = "GET"
    /\ trail[i + 1].id = trail[i].id
    /\ trail[i + 1].before = trail[i].after

\* C31, for collections whose ids are distinct: the GET that follows a
\* successful DELETE of the same id returns not found.
C31_GoneWhenDistinct ==
    \A i \in 1..(Len(trail) - 1) :
        (/\ DeleteThenGet(i)
         /\ \A a, b \in 1..Len(trail[i].before) :
                trail[i].before[a].ID = trail[i].before[b].ID => a = b)
            => IsNotFound(trail[i + 1].err, "GET", trail[i].id)

\* C31: after a DELETE of a post id returns success, a GET of the same id
\* returns not found, for every reachable posts collection; the remaining
\* posts keep their relative order; a DELETE of an id not in the collection
\* returns 404 "Post not found" and leaves the collection unchanged.
C31_DeletedIsGone ==
    /\ \A i \in 1..(Len(trail) - 1) :
           DeleteThenGet(i) => IsNotFound(trail[i + 1].err, "GET", trail[i].id)
    /\ C31_KeepsOrder
    /\ C31_MissIs404

\* A post added by AddPosts and again, under the same id, by AddScheduledPost
\* or a later AddPosts; its DELETE succeeded and the GET that followed was
\* answered.
C31_Witness ==
    /\ Len(trail) >= 2
    /\ DeleteThenGet(1)
    /\ Len(trail[1].before) >= 3
    /\ Len(trail[1].after) = Len(trail[1].before) - 1
    /\ \E a, b \in 1..Len(trail[1].before) :
           a # b /\ trail[1].before[a].ID = trail[1].id /\ trail[1].before[b].ID = trail[1].id

\* ------------------------------------- WaitForJob over a driven progression

\* The progressions a test drives to their end: interior snapshots that are
\* still running (one of them carrying a result of its own), a single
\* snapshot, and a progression that is terminal before its last snapshot.
DrivenProgressions ==
    Progressions \cup
    { << JobStatus(JobA, "processing", 50, Ptr(ResultRejected), ""),
         JobStatus(JobA, "completed", 100, Ptr(ResultOK), "") >>,
      << JobStatus(JobA, "pending", 0, NilResult, ""),
         JobStatus(JobA, "cancelled", 0, NilResult, "stopped") >>,
      << JobStatus(JobA, "completed", 100, NilResult, "") >>,
      << JobStatus(JobA, "failed", 0, Ptr(ResultRejected), "boom"),
         JobStatus(JobA, "completed", 100, Ptr(ResultOK), "") >> }

\* The WaitOptions of the driven calls: the tests' timings, and a jitter
\* below one millisecond.
DrivenOptions ==
    { [InitialDelay |-> 10 * Millisecond, MaxDelay |-> 100 * Millisecond,
       Jitter |-> 5 * Millisecond],
      [InitialDelay |-> 10 * Millisecond, MaxDelay |-> 100 * Millisecond,
       Jitter |-> Millisecond \div 2] }

\* server.SetJobProgression(JobA, states), once
DoDriveInstall(states) ==
    /\ ~adv.has
    /\ DoInstall(states)

\* client.WaitForJob(ctx, opts, &result) for the installed job, with a
\* context that never ends
DoDriveStart(opts) ==
    /\ adv.has
    /\ DoStartWait(JobA, opts, PriorResult)

\* server.AdvanceJobState(JobA), called again until it has returned false
DoDriveAdvance ==
    /\ adv.has
    /\ ~adv.made \/ adv.ret
    /\ DoAdvance

\* The state after a poll of the driven call that left the waiter and the
\* server as p has them.  The polls and the server's count of the status
\* requests are counted up to MaxPolls: no error rule is registered here, so
\* nothing reads the count.
AfterDrivePoll(p) ==
    /\ w' = [p.w EXCEPT !.polls = Min(@, MaxPolls)]
    /\ m' = [p.m EXCEPT !.callCounts = [k \in DOMAIN @ |-> Min(@[k], MaxPolls)]]
    /\ served' = HeldJob(m, JobA)

\* The select takes time.After(delay): one poll that reaches the server.  The
\* jitter drawn after MaxPolls polls is 0, which keeps delay where it is once
\* it has reached maxDelay.
DoDrivePoll(r) ==
    /\ w.pc = "waiting"
    /\ r \in (IF w.polls < MaxPolls THEN JitterSamples(w.jitter) ELSE {0})
    /\ \E g \in {GetJobStatus(m, "live", "ok", w.jobID, clock)} :
           \E p \in {Polled(w, g, r)} : AfterDrivePoll(p)
    /\ UNCHANGED <<clock, iterVars, postVars, wctx, stuck, rt, extVars, timeVars, cfg,
                   trail>>

PollFires == \E r \in 0..JitterSteps(5 * Millisecond) : DoDrivePoll(r)

NextDrive ==
    \/ \E p \in DrivenProgressions : DoDriveInstall(p)
    \/ \E o \in DrivenOptions : DoDriveStart(o)
    \/ DoDriveAdvance
    \/ PollFires

\* time.After(delay) fires after a finite delay and the context never ends,
\* so a waiting call polls again; the test keeps calling AdvanceJobState
\* until it returns false.
SpecDrive ==
    InitWait /\ [][NextDrive]_vars /\ WF_vars(PollFires) /\ WF_vars(DoDriveAdvance)

\* The last snapshot of the installed progression.
FinalSnapshot == adv.states[Len(adv.states)]

\* What WaitForJob hands back for a terminal snapshot f.
OutcomeOf(f) ==
    IF f.Status = "completed"
    THEN [err |-> Nil,
          result |-> IF f.Result.isNil THEN DefaultSuccess ELSE f.Result.val]
    ELSE [err |-> JobError(f.Status, f.Error),
          result |-> IF f.Result.isNil THEN DefaultFailure(f.Error) ELSE f.Result.val]

\* WaitForJob has returned what the last snapshot holds.
ReturnedFinal ==
    /\ w.pc = "returned"
    /\ served = FinalSnapshot
    /\ [err |-> w.err, result |-> w.result] = OutcomeOf(FinalSnapshot)

\* Every snapshot before the last is pending, working or processing.
RunsUntilLast ==
    \A i \in 1..(Len(adv.states) - 1) : StillRunning(adv.states[i].Status)

\* C32: when the last snapshot of the job's progression is completed, failed
\* or cancelled (the snapshots before it still running), AdvanceJobState is
\* called until it returns false and the context does not end, a polling
\* WaitForJob eventually returns, with nil and the last snapshot's result
\* (with the terminal-failure error when the last snapshot is failed or
\* cancelled), and never with a result taken from a snapshot that is not the
\* last.
C32_DrivenToEnd ==
    /\ (w.pc = "waiting" /\ RunsUntilLast) ~> (w.pc = "returned")
    /\ []((w.pc = "returned" /\ RunsUntilLast) => ReturnedFinal)

\* C32 for the calls whose jitter is a millisecond or more.
C32_WholeJitter ==
    /\ (w.pc = "waiting" /\ JitterSteps(w.jitter) > 0 /\ RunsUntilLast)
           ~> (w.pc = "returned")
    /\ []((w.pc = "returned" /\ RunsUntilLast) => ReturnedFinal)

\* C32 for every progression whose last snapshot is terminal, also one that
\* is terminal before its last snapshot, and a jitter of a millisecond or more.
C32_AnyInterior ==
    /\ (w.pc = "waiting" /\ JitterSteps(w.jitter) > 0) ~> (w.pc = "returned")
    /\ [](w.pc = "returned" => ReturnedFinal)

\* The outcomes of a call on a progression that is still running before its
\* last snapshot: it returns what the last snapshot holds, or it panicked in
\* r.Intn with the caller's JobResult untouched.
C32_ReturnsOrPanics ==
    /\ (w.pc = "waiting" /\ RunsUntilLast)
           ~> (w.pc = "returned" \/ (w.pc = "panicked" /\ JitterSteps(w.jitter) = 0))
    /\ []((w.pc = "panicked" /\ RunsUntilLast) => w.result = PriorResult)

\* WaitForJob polled a three-snapshot progression at its first and second
\* snapshot, AdvanceJobState was called until it returned false, and the call
\* returned what the last snapshot holds.
C32_Witness ==
    /\ adv.has /\ Len(adv.states) = 3 /\ adv.made /\ ~adv.ret /\ adv.trues = 2
    /\ w.polls >= 3
    /\ ReturnedFinal
    /\ w.err = Nil /\ w.result = ResultOK

\* --------------------------- AdvanceJobState against job-status requests

\* server.SetJobProgression(JobA, states), once, before any request
DoRaceInstall(states) ==
    /\ ~adv.has
    /\ procs = <<>>
    /\ DoInstall(states)

\* The server starts a goroutine for a status request of the installed job.
RaceArrive ==
    /\ adv.has
    /\ Arrive(StatusRequest(JobA))

\* The store of the counter and the rest of handleRequest, which routes to
\* handleJobStatus; the deferred Unlock runs.  The response is noted.
RaceServe(p) ==
    /\ procs[p].pc = "counted"
    /\ \E h \in {handleCounted(m, procs[p].r, clock, procs[p].loaded)} :
           /\ Exchanged(procs[p].r, h)
           /\ trail' = Append(trail, [proc |-> p, resp |-> h.resp])
    /\ mu' = [mu EXCEPT !.writer = 0]
    /\ procs' = [procs EXCEPT ![p].pc = "done"]
    /\ UNCHANGED <<iterVars, postVars, waitVars, rt, rule, canned, adv, timeVars, cfg>>

\* AdvanceJobState takes the write lock.
AdvanceLock ==
    /\ adv.has
    /\ adv.calls < MaxAdvances
    /\ cfg.pc = "idle"
    /\ ConfigLockFree(mu)
    /\ mu' = [mu EXCEPT !.writer = ConfigCaller]
    /\ cfg' = [pc |-> "locked", op |-> "AdvanceJobState", before |-> m]
    /\ UNCHANGED <<m, clock, iterVars, postVars, waitVars, rt, injVars, adv, procs,
                   timeVars, trail>>

\* AdvanceJobState moves the cursor, or not, and returns; the deferred Unlock
\* runs.
AdvanceRuns ==
    /\ cfg.pc = "locked"
    /\ cfg.op = "AdvanceJobState"
    /\ Advanced(AdvanceJobState(m, JobA))
    /\ mu' = [mu EXCEPT !.writer = 0]
    /\ cfg' = NoConfig
    /\ UNCHANGED <<clock, iterVars, postVars, waitVars, rt, injVars, procs, timeVars,
                   trail>>

NextRace ==
    \/ \E p \in InstalledProgressions : DoRaceInstall(p)
    \/ RaceArrive
    \/ \E p \in 1..Len(procs) : RLock(p)
    \/ \E p \in 1..Len(procs) : ReadDelay(p)
    \/ \E p \in 1..Len(procs) : Lock(p)
    \/ \E p \in 1..Len(procs) : RaceServe(p)
    \/ AdvanceLock
    \/ AdvanceRuns

SpecRace == InitWait /\ [][NextRace]_vars

\* The response that carries snapshot i of the installed progression.
SnapshotResponse(i) ==
    Response(200, [type |-> "jobstatus", json |-> EncodeJobStatus(adv.states[i])])

\* The index of the snapshot a response carries, 0 when it carries none.
SnapshotSeen(resp) ==
    IF \E i \in 1..Len(adv.states) : resp = SnapshotResponse(i)
    THEN CHOOSE i \in 1..Len(adv.states) : resp = SnapshotResponse(i)
    ELSE 0

\* Every response so far carries a snapshot, and no response carries a
\* snapshot earlier than the one a response before it carried.
NeverBack ==
    /\ \A i \in 1..Len(trail) : SnapshotSeen(trail[i].resp) >= 1
    /\ \A i, j \in 1..Len(trail) :
           i < j => SnapshotSeen(trail[i].resp) <= SnapshotSeen(trail[j].resp)

\* C33 as stated, for every progression given to SetJobProgression.
C33_AsStated == NeverBack

\* C33: under any interleaving of AdvanceJobState calls and job-status
\* requests for one job whose progression has at least one snapshot (no
\* SetJobProgression or Reset in between), every status response is one of
\* the progression's snapshots, and the snapshot indices seen in successive
\* responses are non-decreasing.
C33_NeverBack == (adv.has /\ Len(adv.states) >= 1) => NeverBack

\* Three status requests were in flight while AdvanceJobState ran twice:
\* their responses carried the first, the second and the third snapshot.
C33_Witness ==
    /\ Len(trail) = 3
    /\ \A i \in 1..3 : SnapshotSeen(trail[i].resp) = i
    /\ adv.trues = 2
    /\ \E i \in 1..3 : trail[i].proc # i

\* ----------------------------------- create endpoints: rejected requests

\* The latest step was a create request that the server rejected with a 4xx.
RejectedNow == clock' # clock /\ rt'.made /\ rt'.code >= 400 /\ rt'.code < 500

\* C34: a schedule, draft, publish, recurring, auto-schedule or recycle
\* request that the mock server rejects with a 4xx validation error leaves
\* the job map unchanged: no job is created for a rejected request.
C34_RejectedCreatesNoJob == [][RejectedNow => m'.jobs = m.jobs]_vars

\* C34 for the endpoints other than the single-post schedule and draft
\* requests: publish, the bulk requests, recurring, auto-schedule, recycle.
C34_OthersCreateNoJob ==
    [][(RejectedNow /\ rt'.endpoint \notin {"schedule", "draft"})
           => m'.jobs = m.jobs]_vars

\* What a rejected schedule or draft request leaves behind: one pending job
\* under the id the handler had drawn for it.
C34_RejectedLeavesJob ==
    [][(RejectedNow /\ rt'.endpoint \in {"schedule", "draft"})
           => m'.jobs = StoreJob(m, <<"job", clock>>, NewJobStatus).jobs]_vars

\* The first request, a draft with an invalid visibility, was rejected with
\* 400, and the job map holds a job.
C34_Witness ==
    /\ clock = 2
    /\ rt.made /\ rt.endpoint = "draft" /\ rt.code = 400
    /\ m.jobs # EmptyMap

\* ------------------------------- error rules set after calls were made

\* The latest request passed the credential checks for the rule's key and
\* was sent after the rule was configured.
AfterRule ==
    /\ rule.set
    /\ last.made /\ last.passed /\ last.key = rule.key
    /\ last.n > rule.at

C35_CountsFromReset ==
    AfterRule => (last.resp = ConfiguredError <=> last.n >= rule.N)

PostsKey == Key("GET", PostsPath)

\* server.AddPosts(posts) on the freshly reset server, before the iteration
DoLoadFirst(n) ==
    /\ added = 0
    /\ ~call.made
    /\ DoAddPosts(n)

\* server.SetErrorResponse("GET", "/api/v1/posts", k, 500, body, nil), before
\* the iteration
DoRuleFirst(k) ==
    /\ ~call.made
    /\ DoSetErrorResponse(k)

\* An iterator driven with a live context over a collection loaded and an
\* error rule registered before its first Next.
NextIterErr ==
    \/ \E n \in 1..MaxPosts : DoLoadFirst(n)
    \/ \E k \in 1..MaxThreshold : DoRuleFirst(k)
    \/ DoNext("live", "ok")

SpecIterErr == Init /\ [][NextIterErr]_vars

\* The threshold of the rule registered for GET /api/v1/posts.
RuleThreshold == m.errorResponses[PostsKey].CallThreshold

\* Page j of the iterator's listing as the server serves it.
ListingPage(j) ==
    SubSeq(Selected, (j - 1) * defaultPerPage + 1, Min(j * defaultPerPage, Len(Selected)))

\* C36: with an error rule of threshold k >= 1 on GET /api/v1/posts and a
\* posts collection spanning at least k pages on a freshly reset server, an
\* iterator delivers pages 1..k-1 successfully and its k-th Next returns
\* false with Err() set to the injected API error: requests for different
\* page numbers share one call counter.
C36_ErrorAtKthNext ==
    (/\ call.made
     /\ Has(m.errorResponses, PostsKey)
     /\ PagesFor(Len(Selected)) >= RuleThreshold
     /\ Len(fetchLog) <= RuleThreshold)
        => /\ fetchLog = [j \in 1..Len(fetchLog) |-> j]
           /\ GetInt(m.callCounts, PostsKey) = Len(fetchLog)
           /\ \A j \in 1..Len(delivered) :
                  /\ delivered[j].Page = j
                  /\ delivered[j].Items = ListingPage(j)
           /\ IF Len(fetchLog) < RuleThreshold
              THEN /\ call.ret /\ call.wrote
                   /\ Err(it) = Nil
                   /\ Len(delivered) = Len(fetchLog)
              ELSE /\ ~call.ret /\ ~call.wrote
                   /\ Len(delivered) = RuleThreshold - 1
                   /\ Err(it).kind = "api"
                   /\ Err(it).StatusCode = 500
                   /\ Err(it).Message = "Internal Server Error"

\* Over 21 posts and a rule of threshold 2 the iterator delivered page 1, and
\* its second Next, the request for page 2, returned false with the injected
\* error.
C36_Witness ==
    /\ Len(m.posts) = 21 /\ it.request.State = ""
    /\ Has(m.errorResponses, PostsKey) /\ RuleThreshold = 2
    /\ fetchLog = <<1, 2>>
    /\ Len(delivered) = 1 /\ delivered[1].TotalPages = 3
    /\ call.made /\ ~call.ret
    /\ Err(it).kind = "api"

\* ------------------------------------- the loop of the package documentation

\* One pass of the loop in doc.go: `if !iter.Next(ctx, &page) { break }`,
\* else the page's items are processed.  r is what Next returned.
LoopPass(r) ==
    /\ it' = r.it
    /\ m' = r.m
    /\ outPage' = IF r.wrote THEN r.page ELSE outPage
    /\ call' = [made |-> TRUE, ctx |-> "live", ret |-> r.ret, wrote |-> r.wrote,
                fetched |-> r.fetched]
    /\ fetchLog' = fetchLog \o r.fetched
    /\ delivered' = IF r.wrote THEN Append(delivered, r.page) ELSE delivered
    /\ trail' = IF r.ret THEN Append(trail, (IF r.wrote THEN r.page ELSE outPage).Items)
                ELSE trail
    /\ clock' = clock + Len(r.fetched)
    /\ UNCHANGED <<postVars, waitVars, rt, extVars, timeVars, cfg>>

\* The loop runs once more: it has not taken its break.
DoLoopPass(net) ==
    /\ ~call.made \/ call.ret
    /\ \E r \in {Next(it, m, "live", net, clock)} : LoopPass(r)

NextLoop ==
    \/ \E n \in 1..MaxPosts : DoLoadFirst(n)
    \/ \E net \in Networks : DoLoopPass(net)

SpecLoop == Init /\ [][NextLoop]_vars

\* The loop has taken its break and the caller is at iter.Err().
AtErrCheck == call.made /\ ~call.ret

RECURSIVE Flatten(_)
Flatten(pages) ==
    IF pages = <<>> THEN <<>> ELSE Head(pages) \o Flatten(Tail(pages))

\* C37: a caller using the loop of the package documentation (call Next,
\* break as soon as it returns false, otherwise process page.Items) has
\* processed every item of the collection when it checks Err() and finds no
\* error.
C37_LoopProcessesAll == (AtErrCheck /\ Err(it) = Nil) => Flatten(trail) = Selected

\* What the loop has processed at its break: the items of every page but the
\* last, which Next wrote to the caller's page in the call that returned
\* false.
C37_LoopSkipsLastPage ==
    (AtErrCheck /\ Err(it) = Nil) =>
        /\ ConcatItems(delivered) = Selected
        /\ Len(trail) = Len(delivered) - 1
        /\ Flatten(trail) \o outPage.Items = Selected

\* The loop ran over 21 posts and is at its Err() check: it processed the 20
\* items of pages 1 and 2, and the caller's page holds the unprocessed third.
C37_Witness ==
    /\ AtErrCheck
    /\ Len(m.posts) = 21 /\ it.request.State = ""
    /\ Len(Flatten(trail)) = 20
    /\ outPage.Page = 3 /\ Len(outPage.Items) = 1
    /\ Err(it) = Nil

\* ---------------------------------------------- WaitForJob: the jitter draw

\* C38: WaitForJob never panics for any WaitOptions with non-negative
\* durations: with a non-zero Jitter smaller than one millisecond and a job
\* observed in a non-terminal status, the jitter computation completes and
\* polling continues.
C38_NeverPanics == w.pc # "panicked"

\* Where WaitForJob does panic: in r.Intn, called with int(jitter /
\* time.Millisecond) = 0 after a poll that observed pending, working or
\* processing; the caller's JobResult is as it was passed in.
C38_PanicsBelowMillisecond ==
    /\ w.pc = "panicked" =>
          /\ w.jitter > 0 /\ w.jitter < Millisecond
          /\ w.observed /\ StillRunning(w.statusResp.Status)
          /\ w.result = PriorResult
    /\ (w.pc = "waiting" /\ w.polls > 0) => JitterSteps(w.jitter) >= 1

\* WaitForJob was called with a Jitter of 500 microseconds, its first poll
\* observed the job pending, and the call panicked.
C38_Witness ==
    /\ w.pc = "panicked"
    /\ w.jitter = Millisecond \div 2
    /\ w.polls = 1
    /\ w.statusResp.Status = "pending"

\* ------------------------------------------ WaitForJob: the caller's result

\* WaitForJob has returned after observing completed, failed or cancelled.
ReturnedTerminal ==
    /\ w.pc = "returned"
    /\ w.observed
    /\ w.statusResp.Status \in {"completed", "failed", "cancelled"}

\* C39: WaitForJob writes the caller's JobResult only when it observes a
\* terminal status (completed, failed, cancelled): on every return caused by
\* context end, status-request error or unknown status, and during all
\* non-terminal polls, the JobResult is left exactly as the caller passed it.
C39_WritesOnlyAtTerminal ==
    /\ []((w.pc # "idle" /\ ~ReturnedTerminal) => w.result = PriorResult)
    /\ [][(w.pc # "idle" /\ w'.result # w.result) => ReturnedTerminal']_vars

\* WaitForJob polled twice, observed a non-terminal status and then a status
\* outside the protocol, and returned the unknown-status error with the
\* caller's JobResult as it was passed in.
C39_Witness ==
    /\ w.pc = "returned"
    /\ w.polls = 2
    /\ w.err = UnknownStatusError("in_progress")
    /\ served.Status = "in_progress"
    /\ w.result = PriorResult

====
